---- MODULE Spec2Model ----
(***************************************************************************)
(* A model of the Box compiler core: the lexer (lexer.cpp), the parser     *)
(* (parser.cpp), the memory-safety analyzer (memory_analyzer.cpp), the AST *)
(* optimizer (optimizer.cpp) and the compilation driver (compiler.cpp).    *)
(*                                                                         *)
(* The analyzer and the optimizer are recursive walks over an AST; they    *)
(* are modelled as recursive operators that thread the object's state      *)
(* through the walk, one operator per C++ method, and one action per       *)
(* public entry point.  A C++ exception is the pair (thrown, exc) of the   *)
(* threaded state: once thrown is set every operator returns its state     *)
(* unchanged, which is what stack unwinding does to the object's fields.   *)
(***************************************************************************)
EXTENDS Integers, Sequences, FiniteSets, TLC

VARIABLES
    \* ---- MemorySafetyAnalyzer (fields of the object) ----
    allocations,        \* unordered_map<string, AllocationInfo>
    pointers,           \* unordered_map<string, PointerInfo>
    current_scope_vars, \* vector<unordered_set<string>>
    freed_in_scope,     \* vector<unordered_set<string>>
    errors,             \* vector<MemorySafetyError>
    warnings,           \* vector<string>
    strict_mode,        \* bool
    next_cfg_node_id,   \* int
    cfg_nodes,          \* vector<CFGNodePtr>, as a table node_id -> node
    \* ---- the analyzer's caller ----
    statements,         \* the AST handed to analyze
    hash_order,         \* iteration order of the unordered containers
    runs,               \* what each analyze call returned, oldest first
    \* ---- Optimizer (fields of the object) and its caller ----
    config,             \* OptimizerConfig
    passes,             \* vector<unique_ptr<OptimizationPass>>, by class name
    ast,                \* the AST the caller parsed
    optimized,          \* what each optimize call returned, oldest first
    sweeps,             \* the sweeps of the last optimize call, oldest first
    \* ---- BoxCompiler::compile ----
    options,            \* CompilationOptions
    source,             \* the input file
    phase,              \* the last phase that finished, or "failed"
    phase_log,          \* the phases that ran, oldest first
    codegen_stmts,      \* CodeGenerator::generate, the local stmts
    \* ---- Lexer and Parser, and their caller ----
    source_code,        \* the text handed to the lexer, character by character
    scan_result,        \* what scan_tokens left, once it was called
    parse_result,       \* what parse left, once it was called
    \* ---- a caller of the dataflow methods on a CFG of its own ----
    dataflow_calls,     \* the nodes propagate_allocations was called for
    enumerated_paths    \* what enumerate_all_paths returned, once it was called

analyzer_vars == <<allocations, pointers, current_scope_vars, freed_in_scope,
                   errors, warnings, strict_mode, next_cfg_node_id, cfg_nodes,
                   statements, hash_order, runs>>

optimizer_vars == <<config, passes, ast, optimized, sweeps>>

compiler_vars == <<options, source, phase, phase_log, codegen_stmts>>

frontend_vars == <<source_code, scan_result, parse_result>>

graph_vars == <<dataflow_calls, enumerated_paths>>

vars == <<analyzer_vars, optimizer_vars, compiler_vars, frontend_vars, graph_vars>>

-----------------------------------------------------------------------------
(* Generic helpers *)

EmptyMap == [x \in {} |-> {}]

MapPut(m, key, val) == (key :> val) @@ m

Last(s) == s[Len(s)]

Range(s) == {s[i] : i \in DOMAIN s}

Front(s) == SubSeq(s, 1, Len(s) - 1)

Permutations3(S) ==
    {p \in [1..Cardinality(S) -> S] : \A i, j \in DOMAIN p : i # j => p[i] # p[j]}

\* The elements of S in the order the container iterates them.
InOrder(order, S) == SelectSeq(order, LAMBDA v : v \in S)

-----------------------------------------------------------------------------
(* Tokens and AST (token.hpp, parser.hpp).  A node is a record whose field *)
(* kind names its C++ class; Null is a null StmtPtr / ExprPtr.             *)

Tok(lexeme, line, column) == [lexeme |-> lexeme, line |-> line, column |-> column]

EofTok == Tok("", 0, 0)

Null == [kind |-> "null"]

Literal(vt, n, b) == [kind |-> "Literal", vt |-> vt, n |-> n, b |-> b]
NumLit(n) == Literal("num", n, FALSE)
BoolLit(b) == Literal("bool", 0, b)
NilLit == Literal("nil", 0, FALSE)

Variable(name) == [kind |-> "Variable", name |-> name]
Assign(name, value) == [kind |-> "Assign", name |-> name, value |-> value]
Binary(left, op, right) == [kind |-> "Binary", left |-> left, op |-> op, right |-> right]
Unary(op, right) == [kind |-> "Unary", op |-> op, right |-> right]
Logical(left, op, right) == [kind |-> "Logical", left |-> left, op |-> op, right |-> right]
Grouping(expression) == [kind |-> "Grouping", expression |-> expression]
Call(callee, paren, arguments) ==
    [kind |-> "Call", callee |-> callee, paren |-> paren, arguments |-> arguments]

ExprStmt(expression) == [kind |-> "ExprStmt", expression |-> expression]
PrintStmt(expression) == [kind |-> "PrintStmt", expression |-> expression]
VarStmt(name, has_init, initializer) ==
    [kind |-> "VarStmt", name |-> name, has_init |-> has_init, initializer |-> initializer]
Block(stmts) == [kind |-> "Block", statements |-> stmts]
IfStmt(condition, then_branch, has_else, else_branch) ==
    [kind |-> "IfStmt", condition |-> condition, then_branch |-> then_branch,
     has_else |-> has_else, else_branch |-> else_branch]
WhileStmt(condition, body) == [kind |-> "WhileStmt", condition |-> condition, body |-> body]
FunctionStmt(name, params, body) ==
    [kind |-> "FunctionStmt", name |-> name, params |-> params, body |-> body]
ReturnStmt(has_value, value) == [kind |-> "ReturnStmt", has_value |-> has_value, value |-> value]
CaseClause(value, stmts) == [value |-> value, statements |-> stmts]
SwitchStmt(condition, cases, has_default, default_case) ==
    [kind |-> "SwitchStmt", condition |-> condition, cases |-> cases,
     has_default |-> has_default, default_case |-> default_case]
UnsafeBlock(stmts) == [kind |-> "UnsafeBlock", statements |-> stmts]

-----------------------------------------------------------------------------
(* Records of the analyzer (memory_analyzer.hpp) *)

AllocationInfo(name, token, s, array) ==
    [var_name |-> name, allocation_token |-> token, state |-> s,
     has_freed_at |-> FALSE, freed_at |-> EofTok,
     is_array |-> array, ref_count |-> 0, aliases |-> {}]

PointerInfo(name, token, type, s, target) ==
    [var_name |-> name, declaration_token |-> token, pointee_type |-> type,
     state |-> s, has_points_to |-> TRUE, points_to |-> target, level |-> 1]

\* MemorySafetyError: the message text is its fixed part plus the variable
\* it names; a hint that quotes a line carries the line as hint_line.
MemorySafetyError(msg, var, tok, has_hint, hint, hint_line, err_type) ==
    [message |-> msg, var |-> var, token |-> tok, has_hint |-> has_hint,
     hint |-> hint, hint_line |-> hint_line, error_type |-> err_type]

DefaultErrorType == "MEMORY SAFETY ERROR"

\* A warning string: its fixed text, the variable and the number it quotes.
Warning(text, var, n) == [text |-> text, var |-> var, n |-> n]

Throw(st, err) == [st EXCEPT !.thrown = TRUE, !.exc = err]

-----------------------------------------------------------------------------
(* Phase A: the syntactic walk (memory_analyzer.cpp).  st is the analyzer  *)
(* object during one analyze call: its fields, the pending exception, and  *)
(* free_log, an observation of every free(x) the walk meets (the argument  *)
(* token, and the state of x's allocation record at that moment).          *)

enter_scope(st) ==
    IF st.thrown THEN st
    ELSE [st EXCEPT !.current_scope_vars = Append(@, {}),
                    !.freed_in_scope = Append(@, {})]

exit_scope(st) ==
    IF st.thrown THEN st
    ELSE IF Len(st.current_scope_vars) > 1
    THEN LET scope_vars == Last(st.current_scope_vars)
             freed == Last(st.freed_in_scope)
             popped == [st EXCEPT !.current_scope_vars = Front(@),
                                  !.freed_in_scope = Front(@)]
             leaked == InOrder(st.order,
                          {v \in scope_vars :
                              /\ v \in DOMAIN st.allocations
                              /\ st.allocations[v].state = "ALLOCATED"
                              /\ v \notin freed})
         IN  IF leaked = <<>> THEN popped
             ELSE IF st.strict_mode
             THEN Throw(popped, MemorySafetyError(
                      "Memory leak: Variable goes out of scope without being freed",
                      leaked[1], st.allocations[leaked[1]].allocation_token,
                      TRUE, "Add free before the end of this scope", 0, "MEMORY LEAK"))
             ELSE [popped EXCEPT !.warnings = @ \o
                      [i \in 1..Len(leaked) |-> Warning("Potential memory leak", leaked[i], 0)]]
    ELSE st

update_pointer_states_on_free(st, var) ==
    IF var \in DOMAIN st.allocations
    THEN [st EXCEPT !.pointers =
             [p \in DOMAIN @ |->
                 IF p \in st.allocations[var].aliases
                 THEN [@[p] EXCEPT !.state = "DANGLING"] ELSE @[p]]]
    ELSE st

check_variable_access(st, expr) ==
    LET var_name == expr.name.lexeme
    IN  IF st.thrown THEN st
        ELSE IF /\ var_name \in DOMAIN st.allocations
                /\ st.allocations[var_name].state = "FREED"
        THEN LET alloc == st.allocations[var_name]
             IN  Throw(st, MemorySafetyError(
                     "Use-after-free: Accessing freed memory", var_name, expr.name, TRUE,
                     IF alloc.has_freed_at THEN "Memory was freed at line" ELSE "Memory was freed",
                     IF alloc.has_freed_at THEN alloc.freed_at.line ELSE 0,
                     "USE-AFTER-FREE"))
        ELSE IF /\ var_name \in DOMAIN st.pointers
                /\ st.pointers[var_name].state = "DANGLING"
        THEN [st EXCEPT !.warnings = Append(@,
                 Warning("Warning: Accessing dangling pointer", var_name, expr.name.line))]
        ELSE st

\* analyze_free without its test for an allocation that is already Freed:
\* the double-free property must not hold of it
analyze_free_unchecked(st, arg_var) ==
    LET var_name == arg_var.name.lexeme
        known == var_name \in DOMAIN st.allocations
        logged == [st EXCEPT !.free_log = Append(@,
                      [var |-> var_name, token |-> arg_var.name,
                       state |-> IF known THEN st.allocations[var_name].state ELSE "none"])]
    IN  IF ~known THEN logged
        ELSE [logged EXCEPT !.allocations[var_name].state = "FREED",
                            !.allocations[var_name].has_freed_at = TRUE,
                            !.allocations[var_name].freed_at = arg_var.name]

\* analyze_call, the branch func_name == "free" with one Variable argument
analyze_free(st, arg_var) ==
    LET var_name == arg_var.name.lexeme
        known == var_name \in DOMAIN st.allocations
        logged == [st EXCEPT !.free_log = Append(@,
                      [var |-> var_name, token |-> arg_var.name,
                       state |-> IF known THEN st.allocations[var_name].state ELSE "none"])]
    IN  IF ~known
        THEN Throw(logged, MemorySafetyError(
                 "Attempting to free non-allocated memory", var_name, arg_var.name, TRUE,
                 "Only pointers returned by malloc/calloc/realloc can be freed", 0,
                 "INVALID FREE"))
        ELSE LET alloc == st.allocations[var_name]
             IN  IF alloc.state = "FREED"
                 THEN Throw(logged, MemorySafetyError(
                          "Double-free detected", var_name, arg_var.name, TRUE,
                          IF alloc.has_freed_at THEN "Previously freed at line"
                                                ELSE "Previously freed",
                          IF alloc.has_freed_at THEN alloc.freed_at.line ELSE 0,
                          "DOUBLE-FREE"))
                 ELSE IF alloc.state # "ALLOCATED"
                 THEN Throw(logged, MemorySafetyError(
                          "Attempting to free memory in invalid state", var_name,
                          arg_var.name, TRUE, "Current state", 0, DefaultErrorType))
                 ELSE update_pointer_states_on_free(
                          [logged EXCEPT
                              !.allocations[var_name].state = "FREED",
                              !.allocations[var_name].has_freed_at = TRUE,
                              !.allocations[var_name].freed_at = arg_var.name,
                              !.freed_in_scope[Len(st.freed_in_scope)] = @ \cup {var_name}],
                          var_name)

\* analyze_call, the branch func_name == "deref" with one Variable argument
analyze_deref(st, arg_var) ==
    LET var_name == arg_var.name.lexeme
        is_alloc == var_name \in DOMAIN st.allocations
        is_ptr == var_name \in DOMAIN st.pointers
    IN  IF is_alloc /\ st.allocations[var_name].state = "FREED"
        THEN LET alloc == st.allocations[var_name]
             IN  Throw(st, MemorySafetyError(
                     "Use-after-free: Dereferencing freed pointer", var_name, arg_var.name, TRUE,
                     IF alloc.has_freed_at THEN "Pointer was freed at line" ELSE "Pointer was freed",
                     IF alloc.has_freed_at THEN alloc.freed_at.line ELSE 0,
                     "USE-AFTER-FREE"))
        ELSE IF is_alloc /\ st.allocations[var_name].state = "UNINITIALIZED"
        THEN Throw(st, MemorySafetyError(
                 "Dereferencing uninitialized pointer", var_name, arg_var.name, TRUE,
                 "Initialize the pointer before dereferencing", 0, DefaultErrorType))
        ELSE IF is_ptr /\ st.pointers[var_name].state = "DANGLING"
        THEN Throw(st, MemorySafetyError(
                 "Use-after-free: Dereferencing dangling pointer", var_name, arg_var.name, TRUE,
                 "The memory this pointer refers to has been freed", 0, "USE-AFTER-FREE"))
        ELSE IF is_ptr /\ st.pointers[var_name].state = "NULL_PTR"
        THEN Throw(st, MemorySafetyError(
                 "Null pointer dereference", var_name, arg_var.name, TRUE,
                 "Check if pointer is null before dereferencing", 0,
                 "NULL POINTER DEREFERENCE"))
        ELSE st

IsAllocator(func_name) == func_name \in {"malloc", "calloc", "realloc"}

RECURSIVE analyze_expr(_, _)
RECURSIVE analyze_exprs(_, _, _)

\* the loops "for (const auto& e : exprs) analyze_expr(e);"
analyze_exprs(st, exprs, i) ==
    IF i > Len(exprs) \/ st.thrown THEN st
    ELSE analyze_exprs(analyze_expr(st, exprs[i]), exprs, i + 1)

analyze_call(st, expr) ==
    IF st.thrown \/ expr.callee.kind # "Variable" THEN st
    ELSE LET func_name == expr.callee.name.lexeme
         IN  IF func_name = "free"
             THEN IF Len(expr.arguments) # 1
                  THEN Throw(st, MemorySafetyError(
                           "free() expects exactly 1 argument", "", expr.paren, TRUE,
                           "Usage: free(pointer);", 0, DefaultErrorType))
                  ELSE IF expr.arguments[1].kind = "Variable"
                  THEN analyze_free(st, expr.arguments[1])
                  ELSE st
             ELSE IF func_name = "deref"
             THEN IF Len(expr.arguments) # 1
                  THEN Throw(st, MemorySafetyError(
                           "deref() expects exactly 1 argument", "", expr.paren, TRUE,
                           "Usage: deref(pointer);", 0, DefaultErrorType))
                  ELSE IF expr.arguments[1].kind = "Variable"
                  THEN analyze_deref(st, expr.arguments[1])
                  ELSE st
             ELSE IF ~IsAllocator(func_name) /\ func_name # "addr_of"
             THEN analyze_exprs(st, expr.arguments, 1)
             ELSE st

analyze_assign(st, expr) ==
    LET var_name == expr.name.lexeme
    IN  IF st.thrown THEN st
        ELSE IF /\ var_name \in DOMAIN st.allocations
                /\ st.allocations[var_name].state = "ALLOCATED"
                /\ expr.value.kind = "Call"
                /\ expr.value.callee.kind = "Variable"
                /\ IsAllocator(expr.value.callee.name.lexeme)
        THEN Throw(st, MemorySafetyError(
                 "Memory leak: Reassigning without freeing previous allocation", var_name,
                 expr.name, TRUE, "Free the previous allocation first", 0, "MEMORY LEAK"))
        ELSE analyze_expr(st, expr.value)

analyze_unary(st, expr) == analyze_expr(st, expr.right)

analyze_expr(st, expr) ==
    IF st.thrown THEN st
    ELSE CASE expr.kind = "Call" -> analyze_call(st, expr)
           [] expr.kind = "Variable" -> check_variable_access(st, expr)
           [] expr.kind = "Assign" -> analyze_assign(st, expr)
           [] expr.kind = "Binary" -> analyze_expr(analyze_expr(st, expr.left), expr.right)
           [] expr.kind = "Unary" -> analyze_unary(st, expr)
           [] expr.kind = "Grouping" -> analyze_expr(st, expr.expression)
           [] expr.kind = "Logical" -> analyze_expr(analyze_expr(st, expr.left), expr.right)
           [] OTHER -> st

analyze_var_stmt(st, stmt) ==
    LET var_name == stmt.name.lexeme
        init == stmt.initializer
        Target(s2, target_var) ==
            IF target_var \in DOMAIN s2.allocations
            THEN [s2 EXCEPT !.allocations[target_var].ref_count = @ + 1,
                            !.allocations[target_var].aliases = @ \cup {var_name}]
            ELSE s2
        Initialized(s1) ==
            IF s1.thrown \/ init.kind # "Call" \/ init.callee.kind # "Variable" THEN s1
            ELSE IF IsAllocator(init.callee.name.lexeme)
            THEN IF /\ var_name \in DOMAIN s1.allocations
                    /\ s1.allocations[var_name].state = "ALLOCATED"
                 THEN Throw(s1, MemorySafetyError(
                          "Memory leak: reassigned without freeing previous allocation",
                          var_name, stmt.name, TRUE,
                          "Free the previous allocation first", 0, "MEMORY LEAK"))
                 ELSE [s1 EXCEPT !.allocations = MapPut(@, var_name,
                          AllocationInfo(var_name, stmt.name, "ALLOCATED",
                                         init.callee.name.lexeme = "calloc"))]
            ELSE IF /\ init.callee.name.lexeme = "addr_of"
                    /\ Len(init.arguments) > 0
                    /\ init.arguments[1].kind = "Variable"
            THEN Target([s1 EXCEPT !.pointers = MapPut(@, var_name,
                            PointerInfo(var_name, stmt.name, "number", "VALID",
                                        init.arguments[1].name.lexeme))],
                        init.arguments[1].name.lexeme)
            ELSE s1
        Declared(s0) == IF ~stmt.has_init THEN s0 ELSE Initialized(analyze_expr(s0, init))
    IN  IF st.thrown THEN st
        ELSE Declared([st EXCEPT !.current_scope_vars[Len(st.current_scope_vars)] =
                                     @ \cup {var_name}])

analyze_expr_stmt(st, stmt) == analyze_expr(st, stmt.expression)

analyze_return_stmt(st, stmt) ==
    IF stmt.has_value THEN analyze_expr(st, stmt.value) ELSE st

check_function_memory_leaks(st, func_name) ==
    LET leaked == InOrder(st.order,
                     {v \in DOMAIN st.allocations : st.allocations[v].state = "ALLOCATED"})
    IN  IF st.thrown \/ leaked = <<>> \/ ~st.strict_mode THEN st
        ELSE Throw(st, MemorySafetyError(
                 "Memory leak in function: Variable is not freed before return",
                 leaked[1], st.allocations[leaked[1]].allocation_token, TRUE,
                 "Add free before all return statements", 0, "MEMORY LEAK"))

check_memory_leaks(st) ==
    LET leaked == InOrder(st.order,
                     {v \in DOMAIN st.allocations : st.allocations[v].state = "ALLOCATED"})
    IN  IF st.thrown \/ leaked = <<>> THEN st
        ELSE IF st.strict_mode
        THEN Throw(st, MemorySafetyError(
                 "Memory leak: Variable is never freed",
                 leaked[1], st.allocations[leaked[1]].allocation_token, TRUE,
                 "Add free before program exit", 0, "MEMORY LEAK"))
        ELSE [st EXCEPT !.warnings = @ \o
                 [i \in 1..Len(leaked) |->
                     Warning("Warning: Potential memory leak - may not be freed", leaked[i], 0)]]

-----------------------------------------------------------------------------
(* Phase B: control-flow graph and dataflow (memory_analyzer.cpp).  A      *)
(* CFGNodePtr is the node's id; cfg_nodes[id + 1] is the node, because     *)
(* create_cfg_node is the only writer of both next_cfg_node_id and         *)
(* cfg_nodes.  NullNode is a null CFGNodePtr.                              *)

NullNode == -1

ControlFlowNode(t, id) ==
    [type |-> t, node_id |-> id, statement |-> Null, expression |-> Null,
     successors |-> <<>>, predecessors |-> <<>>,
     allocations_in |-> EmptyMap, allocations_out |-> EmptyMap, freed_vars |-> {}]

ControlFlowPath(nodes, final, freed) ==
    [nodes |-> nodes, final_allocations |-> final, freed_vars |-> freed,
     is_feasible |-> TRUE]

\* AllocationInfo::operator==
AllocationInfoEq(a, b) ==
    /\ a.var_name = b.var_name
    /\ a.state = b.state
    /\ a.is_array = b.is_array
    /\ a.ref_count = b.ref_count

\* operator== of unordered_map<string, AllocationInfo>
AllocationsEq(m1, m2) ==
    /\ DOMAIN m1 = DOMAIN m2
    /\ \A k \in DOMAIN m1 : AllocationInfoEq(m1[k], m2[k])

\* the result of a method that returns a CFGNodePtr
Ret(st, node) == [st |-> st, node |-> node]

create_cfg_node(st, type) ==
    Ret([st EXCEPT !.cfg_nodes = Append(@, ControlFlowNode(type, st.next_cfg_node_id)),
                   !.next_cfg_node_id = @ + 1],
        st.next_cfg_node_id)

connect_cfg_nodes(st, from, to) ==
    LET s1 == [st EXCEPT !.cfg_nodes[from + 1].successors = Append(@, to)]
    IN  [s1 EXCEPT !.cfg_nodes[to + 1].predecessors = Append(@, from)]

SetStatement(st, node, stmt, expr) ==
    [st EXCEPT !.cfg_nodes[node + 1].statement = stmt,
               !.cfg_nodes[node + 1].expression = expr]

RECURSIVE build_cfg_stmt(_, _, _)
RECURSIVE build_cfg_block_loop(_, _, _, _, _, _)

\* the for loop of build_cfg_block and the code after it
build_cfg_block_loop(st, stmts, exit_node, i, first_node, prev_node) ==
    LET Linked(r) ==
            IF prev_node # NullNode /\ r.node # NullNode
            THEN build_cfg_block_loop(connect_cfg_nodes(r.st, prev_node, r.node),
                                      stmts, exit_node, i + 1,
                                      IF first_node = NullNode THEN r.node ELSE first_node,
                                      r.node)
            ELSE build_cfg_block_loop(r.st, stmts, exit_node, i + 1,
                                      IF first_node = NullNode THEN r.node ELSE first_node,
                                      r.node)
    IN  IF i > Len(stmts)
        THEN Ret(IF prev_node # NullNode
                 THEN connect_cfg_nodes(st, prev_node, exit_node) ELSE st,
                 first_node)
        ELSE Linked(build_cfg_stmt(st, stmts[i], exit_node))

build_cfg_block(st, stmts, exit_node) ==
    IF stmts = <<>> THEN Ret(st, NullNode)
    ELSE build_cfg_block_loop(st, stmts, exit_node, 1, NullNode, NullNode)

\* connect from to the node r returned, or to other when r returned nullptr
ConnectBody(r, from, other) ==
    connect_cfg_nodes(r.st, from, IF r.node # NullNode THEN r.node ELSE other)

build_cfg_stmt(st, stmt, exit_node) ==
    LET IfElse(s1, branch_node, merge_node) ==
            Ret(IF stmt.has_else
                THEN ConnectBody(build_cfg_stmt(s1, stmt.else_branch, merge_node),
                                 branch_node, merge_node)
                ELSE connect_cfg_nodes(s1, branch_node, merge_node),
                branch_node)
        IfThen(branch_node, m) ==
            IfElse(ConnectBody(build_cfg_stmt(m.st, stmt.then_branch, m.node),
                               branch_node, m.node),
                   branch_node, m.node)
        IfBranch(b) ==
            IfThen(b.node,
                   create_cfg_node(SetStatement(b.st, b.node, stmt, stmt.condition), "MERGE"))
        LoopBody(loop_header, x) ==
            Ret(connect_cfg_nodes(
                    ConnectBody(build_cfg_stmt(x.st, stmt.body, loop_header),
                                loop_header, loop_header),
                    loop_header, x.node),
                loop_header)
        LoopHeader(h) ==
            LoopBody(h.node,
                     create_cfg_node(SetStatement(h.st, h.node, stmt, stmt.condition),
                                     "LOOP_EXIT"))
        Statement(n) == Ret(SetStatement(n.st, n.node, stmt, Null), n.node)
    IN  IF stmt.kind = "IfStmt" THEN IfBranch(create_cfg_node(st, "BRANCH"))
        ELSE IF stmt.kind = "WhileStmt" THEN LoopHeader(create_cfg_node(st, "LOOP_HEADER"))
        ELSE IF stmt.kind = "Block" THEN build_cfg_block(st, stmt.statements, exit_node)
        ELSE Statement(create_cfg_node(st, "STATEMENT"))

\* the graph between the nodes entry and exit just created for stmts (build_cfg,
\* perform_interprocedural_analysis)
BuildBetween(ex, entry, stmts) ==
    Ret(ConnectBody(build_cfg_block(ex.st, stmts, ex.node), entry, ex.node), entry)

EntryThenExit(en, exit_type, stmts) ==
    BuildBetween(create_cfg_node(en.st, exit_type), en.node, stmts)

build_cfg(st, stmts) ==
    IF stmts = <<>> THEN Ret(st, NullNode)
    ELSE EntryThenExit(create_cfg_node(st, "ENTRY"), "EXIT", stmts)

RECURSIVE JoinPredecessors(_, _, _, _)
\* the loop over node->predecessors in propagate_allocations: every entry of
\* a predecessor's allocations_out overwrites what is already there
JoinPredecessors(st, preds, i, acc) ==
    IF i > Len(preds) THEN acc
    ELSE JoinPredecessors(st, preds, i + 1, st.cfg_nodes[preds[i] + 1].allocations_out @@ acc)

IsAllocCall(e) ==
    /\ e.kind = "Call"
    /\ e.callee.kind = "Variable"
    /\ IsAllocator(e.callee.name.lexeme)

propagate_allocations(st, node) ==
    LET n == st.cfg_nodes[node + 1]
        in == JoinPredecessors(st, n.predecessors, 1, EmptyMap)
        stmt == n.statement
        is_alloc == /\ stmt.kind = "VarStmt"
                    /\ stmt.has_init
                    /\ IsAllocCall(stmt.initializer)
        is_free == /\ stmt.kind = "ExprStmt"
                   /\ stmt.expression.kind = "Call"
                   /\ stmt.expression.callee.kind = "Variable"
                   /\ stmt.expression.callee.name.lexeme = "free"
                   /\ stmt.expression.arguments # <<>>
                   /\ stmt.expression.arguments[1].kind = "Variable"
                   /\ stmt.expression.arguments[1].name.lexeme \in DOMAIN in
        out == IF is_alloc
               THEN MapPut(in, stmt.name.lexeme,
                        AllocationInfo(stmt.name.lexeme, stmt.name, "ALLOCATED", FALSE))
               ELSE IF is_free
               THEN [in EXCEPT ![stmt.expression.arguments[1].name.lexeme].state = "FREED"]
               ELSE in
    IN  [st EXCEPT !.cfg_nodes[node + 1].allocations_in = in,
                   !.cfg_nodes[node + 1].allocations_out = out,
                   !.cfg_nodes[node + 1].freed_vars =
                       IF is_free THEN @ \cup {stmt.expression.arguments[1].name.lexeme}
                       ELSE @]

RECURSIVE analyze_memory_dependencies(_)
RECURSIVE DependenciesOfAll(_, _)

DependenciesOfAll(exprs, i) ==
    IF i > Len(exprs) THEN {}
    ELSE analyze_memory_dependencies(exprs[i]) \cup DependenciesOfAll(exprs, i + 1)

\* the set deps that analyze_memory_dependencies(expr, deps) fills
analyze_memory_dependencies(expr) ==
    CASE expr.kind = "Variable" -> {expr.name.lexeme}
      [] expr.kind = "Binary" ->
            analyze_memory_dependencies(expr.left) \cup analyze_memory_dependencies(expr.right)
      [] expr.kind = "Unary" -> analyze_memory_dependencies(expr.right)
      [] expr.kind = "Call" -> DependenciesOfAll(expr.arguments, 1)
      [] expr.kind = "Grouping" -> analyze_memory_dependencies(expr.expression)
      [] OTHER -> {}

detect_memory_access_patterns(st, node) ==
    LET n == st.cfg_nodes[node + 1]
        stmt == n.statement
        accessed_vars ==
            CASE stmt.kind \in {"ExprStmt", "PrintStmt"} ->
                    analyze_memory_dependencies(stmt.expression)
              [] stmt.kind \in {"IfStmt", "WhileStmt"} ->
                    analyze_memory_dependencies(stmt.condition)
              [] stmt.kind = "ReturnStmt" /\ stmt.has_value ->
                    analyze_memory_dependencies(stmt.value)
              [] OTHER -> {}
        hits == InOrder(st.order,
                    {v \in accessed_vars :
                        /\ v \in DOMAIN n.allocations_in
                        /\ n.allocations_in[v].state = "FREED"})
    IN  [st EXCEPT !.warnings = @ \o
            [i \in 1..Len(hits) |->
                Warning("Potential use-after-free in CFG node", hits[i], n.node_id)]]

RECURSIVE PushSuccessors(_, _, _, _)
\* the loop that pushes the successors not yet in the worklist
PushSuccessors(succs, i, worklist, in_worklist) ==
    IF i > Len(succs) THEN [worklist |-> worklist, in_worklist |-> in_worklist]
    ELSE IF succs[i] \in in_worklist
    THEN PushSuccessors(succs, i + 1, worklist, in_worklist)
    ELSE PushSuccessors(succs, i + 1, Append(worklist, succs[i]), in_worklist \cup {succs[i]})

\* the locals of perform_dataflow_analysis between two iterations of its loop
Worklist(st, worklist, in_worklist) ==
    [st |-> st, worklist |-> worklist, in_worklist |-> in_worklist]

\* one iteration of the while (!worklist.empty()) loop
dataflow_step(w) ==
    LET node == Head(w.worklist)
        Changed(s1, old_out) ==
            IF ~AllocationsEq(s1.cfg_nodes[node + 1].allocations_out, old_out)
            THEN [st |-> s1] @@ PushSuccessors(s1.cfg_nodes[node + 1].successors, 1,
                                               Tail(w.worklist), w.in_worklist \ {node})
            ELSE Worklist(s1, Tail(w.worklist), w.in_worklist \ {node})
    IN  Changed(detect_memory_access_patterns(propagate_allocations(w.st, node), node),
                w.st.cfg_nodes[node + 1].allocations_out)

RECURSIVE dataflow_loop(_)
\* the while (!worklist.empty()) loop of perform_dataflow_analysis
dataflow_loop(w) ==
    IF w.worklist = <<>> THEN w.st ELSE dataflow_loop(dataflow_step(w))

perform_dataflow_analysis(st, entry) ==
    IF entry = NullNode THEN st ELSE dataflow_loop(Worklist(st, <<entry>>, {entry}))

MAX_PATHS == 10000

MAX_PATH_DEPTH == 1000

RECURSIVE enumerate_paths_uncapped(_, _, _, _, _, _)
RECURSIVE enumerate_successors_uncapped(_, _, _, _, _, _, _)

enumerate_successors_uncapped(st, succs, i, exit, current_path, visited, all_paths) ==
    IF i > Len(succs) \/ Len(all_paths) < 0 THEN all_paths
    ELSE enumerate_successors_uncapped(st, succs, i + 1, exit, current_path, visited,
             enumerate_paths_uncapped(st, succs[i], exit, current_path, visited, all_paths))

\* enumerate_paths_recursive without the test of all_paths.size()
enumerate_paths_uncapped(st, current, exit, current_path, visited, all_paths) ==
    IF \/ current = NullNode
       \/ Len(all_paths) < 0
       \/ current \in visited
       \/ Len(current_path) >= MAX_PATH_DEPTH
    THEN all_paths
    ELSE IF current = exit
    THEN Append(all_paths,
                ControlFlowPath(Append(current_path, current),
                                st.cfg_nodes[current + 1].allocations_out,
                                st.cfg_nodes[current + 1].freed_vars))
    ELSE enumerate_successors_uncapped(st, st.cfg_nodes[current + 1].successors, 1, exit,
                                       Append(current_path, current),
                                       visited \cup {current}, all_paths)

RECURSIVE enumerate_paths_recursive(_, _, _, _, _, _)
RECURSIVE enumerate_successors(_, _, _, _, _, _, _)

\* the loop over current->successors; current_path and visited come back
\* from each call as they went in, all_paths accumulates.  A call made when
\* all_paths holds MAX_PATHS paths returns at once and so does every call
\* after it, so the loop is left there
enumerate_successors(st, succs, i, exit, current_path, visited, all_paths) ==
    IF i > Len(succs) \/ Len(all_paths) >= MAX_PATHS THEN all_paths
    ELSE enumerate_successors(st, succs, i + 1, exit, current_path, visited,
             enumerate_paths_recursive(st, succs[i], exit, current_path, visited, all_paths))

enumerate_paths_recursive(st, current, exit, current_path, visited, all_paths) ==
    IF \/ current = NullNode
       \/ Len(all_paths) >= MAX_PATHS
       \/ current \in visited
       \/ Len(current_path) >= MAX_PATH_DEPTH
    THEN all_paths
    ELSE LET n == st.cfg_nodes[current + 1]
             path == Append(current_path, current)
         IN  IF current = exit
             THEN Append(all_paths, ControlFlowPath(path, n.allocations_out, n.freed_vars))
             ELSE enumerate_successors(st, n.successors, 1, exit, path,
                                       visited \cup {current}, all_paths)

enumerate_all_paths(st, entry, exit) ==
    enumerate_paths_recursive(st, entry, exit, <<>>, {}, <<>>)

analyze_path_memory_safety(st, path) ==
    LET leaked == InOrder(st.order,
                     {v \in DOMAIN path.final_allocations :
                         path.final_allocations[v].state = "ALLOCATED"})
    IN  IF ~path.is_feasible THEN st
        ELSE [st EXCEPT !.warnings = @ \o
                 [i \in 1..Len(leaked) |->
                     Warning("Path-sensitive analysis: Potential leak along execution path",
                             leaked[i], 0)]]

RECURSIVE analyze_paths(_, _, _)
analyze_paths(st, paths, i) ==
    IF i > Len(paths) THEN st
    ELSE analyze_paths(analyze_path_memory_safety(st, paths[i]), paths, i + 1)

perform_interprocedural_analysis(st, func) ==
    LET Paths(s2, entry, exit) ==
            analyze_paths(s2, enumerate_all_paths(s2, entry, exit), 1)
        Dataflow(g) ==
            Paths(perform_dataflow_analysis(g.st, g.node), g.node, g.node + 1)
    IN  IF st.thrown THEN st
        ELSE Dataflow(EntryThenExit(create_cfg_node(st, "FUNCTION_CALL"),
                                    "FUNCTION_RETURN", func.body))

-----------------------------------------------------------------------------
(* Phase A, statements *)

RECURSIVE analyze_stmt(_, _)
RECURSIVE analyze_stmts(_, _, _)
RECURSIVE analyze_cases(_, _, _)

\* the loops "for (const auto& s : statements) analyze_stmt(s);"
analyze_stmts(st, stmts, i) ==
    IF i > Len(stmts) \/ st.thrown THEN st
    ELSE analyze_stmts(analyze_stmt(st, stmts[i]), stmts, i + 1)

analyze_block(st, stmt) ==
    exit_scope(analyze_stmts(enter_scope(st), stmt.statements, 1))

\* analyze_if_stmt with the allocations put back as they were before the
\* then-branch: the nested-if property must not hold of it
analyze_if_reverting(st, stmt) ==
    LET Then(s0) ==
            LET Revert(s1) ==
                    IF s1.thrown THEN s1 ELSE [s1 EXCEPT !.allocations = s0.allocations]
            IN  Revert(analyze_stmt(s0, stmt.then_branch))
    IN  Then(analyze_expr(st, stmt.condition))

analyze_if_stmt(st, stmt) ==
    LET Join(s2, then_freed) ==
            IF s2.thrown THEN s2
            ELSE [s2 EXCEPT !.allocations =
                     [v \in DOMAIN @ |->
                         IF /\ v \in then_freed
                            /\ v \notin Last(s2.freed_in_scope)
                            /\ @[v].state = "FREED"
                         THEN [@[v] EXCEPT !.state = "ALLOCATED"] ELSE @[v]]]
        Else(s1, then_allocations) ==
            IF s1.thrown \/ ~stmt.has_else THEN s1
            ELSE Join(analyze_stmt([s1 EXCEPT !.allocations = then_allocations],
                                   stmt.else_branch),
                      Last(s1.freed_in_scope))
        Then(s0) == Else(analyze_stmt(s0, stmt.then_branch), s0.allocations)
    IN  Then(analyze_expr(st, stmt.condition))

analyze_while_stmt(st, stmt) ==
    exit_scope(analyze_stmt(enter_scope(analyze_expr(st, stmt.condition)), stmt.body))

analyze_function_stmt(st, stmt) ==
    LET Restore(s3) ==
            IF s3.thrown THEN s3
            ELSE [s3 EXCEPT !.allocations = st.allocations, !.pointers = st.pointers]
    IN  IF st.thrown THEN st
        ELSE Restore(exit_scope(perform_interprocedural_analysis(
                 check_function_memory_leaks(
                     analyze_stmts(
                         enter_scope([st EXCEPT !.allocations = EmptyMap,
                                                !.pointers = EmptyMap]),
                         stmt.body, 1),
                     stmt.name),
                 stmt)))

\* the loop over stmt->cases of analyze_switch_stmt
analyze_cases(st, cases, i) ==
    LET Case(s0) ==
            LET Next(s1) ==
                    IF s1.thrown THEN s1
                    ELSE analyze_cases([s1 EXCEPT !.allocations = s0.allocations],
                                       cases, i + 1)
            IN  Next(analyze_stmts(s0, cases[i].statements, 1))
    IN  IF i > Len(cases) \/ st.thrown THEN st
        ELSE Case(analyze_expr(st, cases[i].value))

analyze_switch_stmt(st, stmt) ==
    LET Default(s1) ==
            IF stmt.has_default THEN analyze_stmts(s1, stmt.default_case, 1) ELSE s1
    IN  Default(analyze_cases(analyze_expr(st, stmt.condition), stmt.cases, 1))

analyze_unsafe_block(st, stmt) ==
    LET Restore(s1) ==
            IF s1.thrown THEN s1 ELSE [s1 EXCEPT !.strict_mode = st.strict_mode]
    IN  IF st.thrown THEN st
        ELSE Restore(analyze_stmts([st EXCEPT !.strict_mode = FALSE], stmt.statements, 1))

analyze_stmt(st, stmt) ==
    IF st.thrown THEN st
    ELSE CASE stmt.kind = "VarStmt" -> analyze_var_stmt(st, stmt)
           [] stmt.kind = "ExprStmt" -> analyze_expr_stmt(st, stmt)
           [] stmt.kind = "Block" -> analyze_block(st, stmt)
           [] stmt.kind = "IfStmt" -> analyze_if_stmt(st, stmt)
           [] stmt.kind = "WhileStmt" -> analyze_while_stmt(st, stmt)
           [] stmt.kind = "FunctionStmt" -> analyze_function_stmt(st, stmt)
           [] stmt.kind = "ReturnStmt" -> analyze_return_stmt(st, stmt)
           [] stmt.kind = "PrintStmt" -> analyze_expr(st, stmt.expression)
           [] stmt.kind = "SwitchStmt" -> analyze_switch_stmt(st, stmt)
           [] stmt.kind = "UnsafeBlock" -> analyze_unsafe_block(st, stmt)
           [] OTHER -> st

\* MemorySafetyAnalyzer::analyze: the object after the call, with the value
\* returned in result
analyze(obj, stmts) ==
    LET Dataflow(cfg) ==
            LET Verdict(s2) == [s2 EXCEPT !.result = (s2.errors = <<>>)]
            IN  Verdict(perform_dataflow_analysis(cfg.st, cfg.node))
        Walked(s1) ==
            IF s1.thrown
            THEN [s1 EXCEPT !.errors = Append(@, s1.exc), !.result = FALSE]
            ELSE Dataflow(build_cfg(s1, stmts))
    IN  Walked(check_memory_leaks(analyze_stmts(
            [obj EXCEPT !.errors = <<>>, !.warnings = <<>>,
                        !.thrown = FALSE, !.exc = Null, !.free_log = <<>>],
            stmts, 1)))

-----------------------------------------------------------------------------
(* The programs handed to the analyzer: what the parser builds for source  *)
(* text with one statement or brace per line, not indented, after a first  *)
(* empty line (as in the test sources), so a token's column is its offset  *)
(* in the line.                                                            *)

MaxCalls == 2     \* analyze calls made by the caller
MaxBody == 2      \* statements in the body of a block, loop, function
MaxNest == 2      \* depth of nested if statements
MaxFlat == 3      \* statements of a program without compound statement

Names == {"x", "y"}

\* var v = malloc(100);
VarMalloc(v, l) ==
    VarStmt(Tok(v, l, 4), TRUE,
            Call(Variable(Tok("malloc", l, 8)), Tok(")", l, 18), <<NumLit(100)>>))

\* var p = addr_of(v);
VarAddrOf(p, v, l) ==
    VarStmt(Tok(p, l, 4), TRUE,
            Call(Variable(Tok("addr_of", l, 8)), Tok(")", l, 17), <<Variable(Tok(v, l, 16))>>))

\* free(v);
FreeStmt(v, l) ==
    ExprStmt(Call(Variable(Tok("free", l, 0)), Tok(")", l, 6), <<Variable(Tok(v, l, 5))>>))

\* print v;
PrintVar(v, l) == PrintStmt(Variable(Tok(v, l, 6)))

Atoms(l) ==
    {VarMalloc(v, l) : v \in Names} \cup {FreeStmt(v, l) : v \in Names}
        \cup {PrintVar(v, l) : v \in Names} \cup {VarAddrOf("y", "x", l)}

RECURSIVE BodiesOfLen(_, _)
\* the statement lists of exactly n atoms on the lines l, l + 1, ...
BodiesOfLen(l, n) ==
    IF n = 0 THEN {<<>>}
    ELSE {<<a>> \o b : a \in Atoms(l), b \in BodiesOfLen(l + 1, n - 1)}

Bodies(l, n) == UNION {BodiesOfLen(l, k) : k \in 0..n}

RECURSIVE NestedIf(_, _)
\* if (true) { if (true) { ... body ... } }, d ifs deep, none with an else
NestedIf(d, body) ==
    IfStmt(BoolLit(TRUE), Block(IF d = 1 THEN body ELSE <<NestedIf(d - 1, body)>>),
           FALSE, Null)

FirstLine == 2
SecondBodyLine == FirstLine + 2 + MaxNest + MaxBody + 1
PostLine == SecondBodyLine + MaxBody + 2

Compounds ==
    LET l == FirstLine + 1
        B == Bodies(l + 1, MaxBody)
        B1 == Bodies(l + 1, 1)
        B2 == Bodies(SecondBodyLine, 1)
    IN  {Block(b) : b \in B}
        \cup {WhileStmt(BoolLit(TRUE), Block(b)) : b \in B}
        \cup {UnsafeBlock(b) : b \in B}
        \cup {FunctionStmt(Tok("f", l, 4), <<>>, b) : b \in B}
        \cup {NestedIf(d, b) : d \in 1..MaxNest, b \in Bodies(l + MaxNest, MaxBody)}
        \cup {IfStmt(BoolLit(TRUE), Block(b1), TRUE, Block(b2)) : b1 \in B1, b2 \in B2}
        \cup {SwitchStmt(NumLit(1), <<CaseClause(NumLit(1), b1)>>, FALSE, <<>>) : b1 \in B1}
        \cup {SwitchStmt(NumLit(1), <<CaseClause(NumLit(1), b1)>>, TRUE, b2) :
                  b1 \in B1, b2 \in B2}
        \cup {UnsafeBlock(<<FunctionStmt(Tok("f", l + 1, 4), <<>>, b1)>>) :
                  b1 \in Bodies(l + 2, 1)}
        \cup {UnsafeBlock(<<Block(b1)>>) : b1 \in Bodies(l + 2, 1)}

\* a compound statement, with at most an allocation before it and at most
\* one statement after it; or a list of simple statements
Programs ==
    {pre \o <<c>> \o post :
        pre \in {<<>>} \cup {<<VarMalloc(v, FirstLine)>> : v \in Names},
        c \in Compounds, post \in Bodies(PostLine, 1)}
    \cup Bodies(FirstLine, MaxFlat)

-----------------------------------------------------------------------------
(* The optimizer (optimizer.cpp).  A pass method returns the rewritten     *)
(* node and may set the pass's flag modified; the operators return both:   *)
(* x is the node (or statement list) returned, modified tells whether the  *)
(* call set the flag.  An operator token is its TokenType: the passes      *)
(* compare nothing else of it.  LiteralValue doubles are integers here.    *)

Rewritten(x, modified) == [x |-> x, modified |-> modified]

Lift1(C(_), a) == Rewritten(C(a.x), a.modified)

Lift2(C(_, _), a, b) == Rewritten(C(a.x, b.x), a.modified \/ b.modified)

Lift3(C(_, _, _), a, b, c) ==
    Rewritten(C(a.x, b.x, c.x), a.modified \/ b.modified \/ c.modified)

\* for (s : list) push_back(F(s))
Each(F(_), list) ==
    LET Push(result, r) ==
            Rewritten(Append(result.x, r.x), result.modified \/ r.modified)
        Loop[i \in 0..Len(list)] ==
            IF i = 0 THEN Rewritten(<<>>, FALSE) ELSE Push(Loop[i - 1], F(list[i]))
    IN  Loop[Len(list)]

\* for (s : list) { auto r = F(s); if (r) push_back(r); }
EachNonNull(F(_), list) ==
    LET Push(result, r) ==
            Rewritten(IF r.x # Null THEN Append(result.x, r.x) ELSE result.x,
                      result.modified \/ r.modified)
        Loop[i \in 0..Len(list)] ==
            IF i = 0 THEN Rewritten(<<>>, FALSE) ELSE Push(Loop[i - 1], F(list[i]))
    IN  Loop[Len(list)]

SetModified(r) == Rewritten(r.x, TRUE)

IsNumber(e) == e.kind = "Literal" /\ e.vt = "num"

IsBoolean(e) == e.kind = "Literal" /\ e.vt = "bool"

\* std::fmod on integral operands: the sign of the dividend
fmod(l, r) ==
    LET d == IF r < 0 THEN -r ELSE r
    IN  IF l >= 0 THEN l % d ELSE -((-l) % d)

\* ---- ConstantFolder ----

\* the literal the numeric case returns, Null where it returns nothing
FoldNumbers(op, left_val, right_val) ==
    CASE op = "PLUS" -> NumLit(left_val + right_val)
      [] op = "MINUS" -> NumLit(left_val - right_val)
      [] op = "STAR" -> NumLit(left_val * right_val)
      [] op = "SLASH" /\ right_val # 0 /\ fmod(left_val, right_val) = 0 ->
             NumLit(IF (left_val < 0) = (right_val < 0)
                    THEN (IF left_val < 0 THEN -left_val ELSE left_val)
                             \div (IF right_val < 0 THEN -right_val ELSE right_val)
                    ELSE -((IF left_val < 0 THEN -left_val ELSE left_val)
                             \div (IF right_val < 0 THEN -right_val ELSE right_val)))
      [] op = "SLASH" /\ right_val # 0 /\ fmod(left_val, right_val) # 0 ->
             Literal("ratio", left_val, FALSE) @@ [den |-> right_val]
      [] op = "PERCENT" /\ right_val # 0 -> NumLit(fmod(left_val, right_val))
      [] op = "LESS" -> BoolLit(left_val < right_val)
      [] op = "LESS_EQUAL" -> BoolLit(left_val <= right_val)
      [] op = "GREATER" -> BoolLit(left_val > right_val)
      [] op = "GREATER_EQUAL" -> BoolLit(left_val >= right_val)
      [] op = "EQUAL_EQUAL" -> BoolLit(left_val = right_val)
      [] op = "BANG_EQUAL" -> BoolLit(left_val # right_val)
      [] OTHER -> Null

FoldBooleans(op, left_val, right_val) ==
    CASE op = "EQUAL_EQUAL" -> BoolLit(left_val = right_val)
      [] op = "BANG_EQUAL" -> BoolLit(left_val # right_val)
      [] OTHER -> Null

\* the Unary case of fold_expr, right already folded
FoldUnary(op, right) ==
    IF right.x.kind = "Literal"
    THEN Rewritten(
             IF op = "MINUS" /\ IsNumber(right.x) THEN NumLit(-right.x.n)
             ELSE IF op = "BANG" /\ IsBoolean(right.x) THEN BoolLit(~right.x.b)
             ELSE IF op = "BANG" /\ IsNumber(right.x) THEN BoolLit(right.x.n = 0)
             ELSE Unary(op, right.x),
             TRUE)
    ELSE Lift1(LAMBDA r : Unary(op, r), right)

\* the Binary case of fold_expr, both operands already folded
FoldBinary(op, left, right) ==
    LET numbers == IsNumber(left.x) /\ IsNumber(right.x)
        booleans == IsBoolean(left.x) /\ IsBoolean(right.x)
        folded == IF numbers THEN FoldNumbers(op, left.x.n, right.x.n)
                  ELSE IF booleans THEN FoldBooleans(op, left.x.b, right.x.b)
                  ELSE Null
    IN  Rewritten(IF folded # Null THEN folded ELSE Binary(left.x, op, right.x),
                  left.modified \/ right.modified \/ numbers \/ booleans)

\* the Logical case of fold_expr, both operands already folded
FoldLogical(op, left, right) ==
    LET is_truthy == IF IsBoolean(left.x) THEN left.x.b
                     ELSE IF IsNumber(left.x) THEN left.x.n # 0
                     ELSE TRUE
    IN  IF left.x.kind = "Literal" /\ op = "AND"
        THEN Rewritten(IF ~is_truthy THEN BoolLit(FALSE) ELSE right.x, TRUE)
        ELSE IF left.x.kind = "Literal" /\ op = "OR"
        THEN Rewritten(IF is_truthy THEN BoolLit(TRUE) ELSE right.x, TRUE)
        ELSE Lift2(LAMBDA l, r : Logical(l, op, r), left, right)

\* the value of a literal condition (fold_stmt, IfStmt and WhileStmt)
cond_val(lit) ==
    IF IsBoolean(lit) THEN lit.b ELSE IF IsNumber(lit) THEN lit.n # 0 ELSE FALSE

RECURSIVE fold_expr(_)
fold_expr(expr) ==
    CASE expr.kind = "null" -> Rewritten(Null, FALSE)
      [] expr.kind = "Literal" -> Rewritten(expr, FALSE)
      [] expr.kind = "Grouping" -> fold_expr(expr.expression)
      [] expr.kind = "Unary" -> FoldUnary(expr.op, fold_expr(expr.right))
      [] expr.kind = "Binary" ->
             FoldBinary(expr.op, fold_expr(expr.left), fold_expr(expr.right))
      [] expr.kind = "Logical" ->
             FoldLogical(expr.op, fold_expr(expr.left), fold_expr(expr.right))
      [] expr.kind = "Assign" ->
             Lift1(LAMBDA v : Assign(expr.name, v), fold_expr(expr.value))
      [] expr.kind = "Call" ->
             Lift1(LAMBDA a : Call(expr.callee, expr.paren, a),
                   Each(fold_expr, expr.arguments))
      [] OTHER -> Rewritten(expr, FALSE)

\* the rewriting of the statement kinds every expression pass treats alike:
\* E rewrites an expression, S a statement, L a statement list
RebuildSimple(E(_), stmt) ==
    CASE stmt.kind = "ExprStmt" -> Lift1(ExprStmt, E(stmt.expression))
      [] stmt.kind = "PrintStmt" -> Lift1(PrintStmt, E(stmt.expression))
      [] stmt.kind = "VarStmt" ->
             IF stmt.has_init
             THEN Lift1(LAMBDA v : VarStmt(stmt.name, TRUE, v), E(stmt.initializer))
             ELSE Rewritten(VarStmt(stmt.name, FALSE, Null), FALSE)
      [] stmt.kind = "ReturnStmt" ->
             IF stmt.has_value
             THEN Lift1(LAMBDA v : ReturnStmt(TRUE, v), E(stmt.value))
             ELSE Rewritten(ReturnStmt(FALSE, Null), FALSE)

RebuildIf(stmt, cond, then_br, else_br) ==
    Lift3(LAMBDA c, t, e : IfStmt(c, t, stmt.has_else, e), cond, then_br, else_br)

RebuildSwitch(E(_), L(_), stmt) ==
    Lift3(LAMBDA c, cs, d : SwitchStmt(c, cs, stmt.has_default, d),
          E(stmt.condition),
          Each(LAMBDA cc : Lift2(CaseClause, E(cc.value), L(cc.statements)), stmt.cases),
          IF stmt.has_default THEN L(stmt.default_case) ELSE Rewritten(<<>>, FALSE))

RECURSIVE fold_stmt(_)
fold_stmt(stmt) ==
    LET fold_list(list) == EachNonNull(fold_stmt, list)
        Else == IF stmt.has_else THEN fold_stmt(stmt.else_branch)
                ELSE Rewritten(Null, FALSE)
        If(folded_cond) ==
            IF folded_cond.x.kind = "Literal"
            THEN SetModified(IF cond_val(folded_cond.x) THEN fold_stmt(stmt.then_branch)
                             ELSE Else)
            ELSE RebuildIf(stmt, folded_cond, fold_stmt(stmt.then_branch), Else)
        While(folded_cond) ==
            IF folded_cond.x.kind = "Literal" /\ ~cond_val(folded_cond.x)
            THEN Rewritten(Null, TRUE)
            ELSE Lift2(WhileStmt, folded_cond, fold_stmt(stmt.body))
    IN  CASE stmt.kind = "null" -> Rewritten(Null, FALSE)
          [] stmt.kind \in {"ExprStmt", "PrintStmt", "VarStmt", "ReturnStmt"} ->
                 RebuildSimple(fold_expr, stmt)
          [] stmt.kind = "Block" -> Lift1(Block, fold_list(stmt.statements))
          [] stmt.kind = "IfStmt" -> If(fold_expr(stmt.condition))
          [] stmt.kind = "WhileStmt" -> While(fold_expr(stmt.condition))
          [] stmt.kind = "SwitchStmt" -> RebuildSwitch(fold_expr, fold_list, stmt)
          [] stmt.kind = "FunctionStmt" ->
                 Lift1(LAMBDA b : FunctionStmt(stmt.name, stmt.params, b),
                       fold_list(stmt.body))
          [] OTHER -> Rewritten(stmt, FALSE)

ConstantFolder_run(stmts) == EachNonNull(fold_stmt, stmts)

\* Block, IfStmt, WhileStmt and FunctionStmt rebuilt from their rewritten
\* parts: E rewrites a condition, S a statement, L a statement list
RebuildCompound(E(_), S(_), L(_), stmt) ==
    CASE stmt.kind = "Block" -> Lift1(Block, L(stmt.statements))
      [] stmt.kind = "IfStmt" ->
             RebuildIf(stmt, E(stmt.condition), S(stmt.then_branch),
                       IF stmt.has_else THEN S(stmt.else_branch)
                       ELSE Rewritten(Null, FALSE))
      [] stmt.kind = "WhileStmt" -> Lift2(WhileStmt, E(stmt.condition), S(stmt.body))
      [] stmt.kind = "FunctionStmt" ->
             Lift1(LAMBDA b : FunctionStmt(stmt.name, stmt.params, b), L(stmt.body))

\* a pass leaves the node as it is
Same(node) == Rewritten(node, FALSE)

\* ---- AlgebraicSimplifier ----

is_power_of_two(n) == n > 0 /\ \E k \in 0..30 : n = 2^k

log2_int(n) == CHOOSE k \in 0..30 : 2^k <= n /\ n < 2^(k + 1)

is_zero(expr) == IsNumber(expr) /\ expr.n = 0

is_one(expr) == IsNumber(expr) /\ expr.n = 1

are_equal_variables(a, b) ==
    a.kind = "Variable" /\ b.kind = "Variable" /\ a.name.lexeme = b.name.lexeme

create_literal(value) == NumLit(value)

RECURSIVE deep_copy_expr(_)
deep_copy_expr(expr) ==
    CASE expr.kind = "Literal" -> Literal(expr.vt, expr.n, expr.b)
      [] expr.kind = "Variable" -> Variable(expr.name)
      [] expr.kind = "Binary" ->
             Binary(deep_copy_expr(expr.left), expr.op, deep_copy_expr(expr.right))
      [] expr.kind = "Unary" -> Unary(expr.op, deep_copy_expr(expr.right))
      [] OTHER -> expr

RECURSIVE SumOfCopies(_, _)
\* for (i < power) result = Binary(result, +, deep_copy_expr(result))
SumOfCopies(result, power) ==
    IF power = 0 THEN result
    ELSE SumOfCopies(Binary(result, "PLUS", deep_copy_expr(result)), power - 1)

\* the Binary case of simplify_expr, both operands already simplified
SimplifyBinary(op, left, right) ==
    LET l == left.x
        r == right.x
    IN  CASE op = "PLUS" /\ is_zero(l) -> Rewritten(r, TRUE)
          [] op = "PLUS" /\ ~is_zero(l) /\ is_zero(r) -> Rewritten(l, TRUE)
          [] op = "MINUS" /\ is_zero(r) -> Rewritten(l, TRUE)
          [] op = "MINUS" /\ ~is_zero(r) /\ are_equal_variables(l, r) ->
                 Rewritten(create_literal(0), TRUE)
          [] op = "STAR" /\ (is_zero(l) \/ is_zero(r)) -> Rewritten(create_literal(0), TRUE)
          [] op = "STAR" /\ ~is_zero(l) /\ ~is_zero(r) /\ is_one(l) -> Rewritten(r, TRUE)
          [] op = "STAR" /\ ~is_zero(l) /\ ~is_zero(r) /\ ~is_one(l) /\ is_one(r) ->
                 Rewritten(l, TRUE)
          [] op = "STAR" /\ ~is_zero(l) /\ ~is_one(l) /\ IsNumber(r)
                 /\ r.n \notin {0, 1} /\ is_power_of_two(r.n) ->
                 Rewritten(SumOfCopies(l, log2_int(r.n)), TRUE)
          [] op = "SLASH" /\ is_one(r) -> Rewritten(l, TRUE)
          [] op = "SLASH" /\ ~is_one(r) /\ are_equal_variables(l, r) ->
                 Rewritten(create_literal(1), TRUE)
          [] OTHER -> Lift2(LAMBDA a, b : Binary(a, op, b), left, right)

\* the Unary case of simplify_expr, the operand already simplified
SimplifyUnary(op, right) ==
    IF op = "MINUS" /\ right.x.kind = "Unary" /\ right.x.op = "MINUS"
    THEN Rewritten(right.x.right, TRUE)
    ELSE Lift1(LAMBDA r : Unary(op, r), right)

RECURSIVE simplify_expr(_)
simplify_expr(expr) ==
    CASE expr.kind = "Binary" ->
             SimplifyBinary(expr.op, simplify_expr(expr.left), simplify_expr(expr.right))
      [] expr.kind = "Unary" -> SimplifyUnary(expr.op, simplify_expr(expr.right))
      [] expr.kind = "Grouping" -> simplify_expr(expr.expression)
      [] expr.kind = "Logical" ->
             Lift2(LAMBDA l, r : Logical(l, expr.op, r),
                   simplify_expr(expr.left), simplify_expr(expr.right))
      [] expr.kind = "Assign" ->
             Lift1(LAMBDA v : Assign(expr.name, v), simplify_expr(expr.value))
      [] expr.kind = "Call" ->
             Lift1(LAMBDA a : Call(expr.callee, expr.paren, a),
                   Each(simplify_expr, expr.arguments))
      [] OTHER -> Same(expr)

RECURSIVE simplify_stmt(_)
simplify_stmt(stmt) ==
    LET simplify_list(list) == EachNonNull(simplify_stmt, list)
    IN  CASE stmt.kind \in {"ExprStmt", "PrintStmt", "VarStmt", "ReturnStmt"} ->
                 RebuildSimple(simplify_expr, stmt)
          [] stmt.kind \in {"Block", "IfStmt", "WhileStmt", "FunctionStmt"} ->
                 RebuildCompound(simplify_expr, simplify_stmt, simplify_list, stmt)
          [] stmt.kind = "SwitchStmt" -> RebuildSwitch(simplify_expr, simplify_list, stmt)
          [] OTHER -> Same(stmt)

AlgebraicSimplifier_run(stmts) == EachNonNull(simplify_stmt, stmts)

\* ---- DeadCodeEliminator ----

\* union of F over the elements of a list
UnionOver(F(_), list) == UNION {F(list[i]) : i \in 1..Len(list)}

RECURSIVE DeadCodeEliminator_analyze_expr(_)
\* the names analyze_expr inserts into used_vars
DeadCodeEliminator_analyze_expr(expr) ==
    CASE expr.kind = "Variable" -> {expr.name.lexeme}
      [] expr.kind = "Assign" ->
             {expr.name.lexeme} \cup DeadCodeEliminator_analyze_expr(expr.value)
      [] expr.kind \in {"Binary", "Logical"} ->
             DeadCodeEliminator_analyze_expr(expr.left)
                 \cup DeadCodeEliminator_analyze_expr(expr.right)
      [] expr.kind = "Unary" -> DeadCodeEliminator_analyze_expr(expr.right)
      [] expr.kind = "Grouping" -> DeadCodeEliminator_analyze_expr(expr.expression)
      [] expr.kind = "Call" -> UnionOver(DeadCodeEliminator_analyze_expr, expr.arguments)
      [] OTHER -> {}

RECURSIVE DeadCodeEliminator_analyze_stmt(_)
\* the names analyze_stmt inserts into used_vars
DeadCodeEliminator_analyze_stmt(stmt) ==
    CASE stmt.kind = "VarStmt" ->
             IF stmt.has_init THEN DeadCodeEliminator_analyze_expr(stmt.initializer) ELSE {}
      [] stmt.kind \in {"ExprStmt", "PrintStmt"} ->
             DeadCodeEliminator_analyze_expr(stmt.expression)
      [] stmt.kind = "Block" -> UnionOver(DeadCodeEliminator_analyze_stmt, stmt.statements)
      [] stmt.kind = "IfStmt" ->
             DeadCodeEliminator_analyze_expr(stmt.condition)
                 \cup DeadCodeEliminator_analyze_stmt(stmt.then_branch)
                 \cup (IF stmt.has_else THEN DeadCodeEliminator_analyze_stmt(stmt.else_branch)
                       ELSE {})
      [] stmt.kind = "WhileStmt" ->
             DeadCodeEliminator_analyze_expr(stmt.condition)
                 \cup DeadCodeEliminator_analyze_stmt(stmt.body)
      [] stmt.kind = "SwitchStmt" ->
             DeadCodeEliminator_analyze_expr(stmt.condition)
                 \cup UnionOver(LAMBDA cc :
                          DeadCodeEliminator_analyze_expr(cc.value)
                              \cup UnionOver(DeadCodeEliminator_analyze_stmt, cc.statements),
                          stmt.cases)
                 \cup (IF stmt.has_default
                       THEN UnionOver(DeadCodeEliminator_analyze_stmt, stmt.default_case)
                       ELSE {})
      [] stmt.kind = "FunctionStmt" ->
             UnionOver(DeadCodeEliminator_analyze_stmt, stmt.body)
      [] stmt.kind = "ReturnStmt" ->
             IF stmt.has_value THEN DeadCodeEliminator_analyze_expr(stmt.value) ELSE {}
      [] OTHER -> {}

RECURSIVE has_side_effects(_)
has_side_effects(expr) ==
    CASE expr.kind \in {"Call", "Assign"} -> TRUE
      [] expr.kind \in {"Binary", "Logical"} ->
             has_side_effects(expr.left) \/ has_side_effects(expr.right)
      [] expr.kind = "Unary" -> has_side_effects(expr.right)
      [] expr.kind = "Grouping" -> has_side_effects(expr.expression)
      [] OTHER -> FALSE

\* essential_vars is never written (mark_essential_variables has an empty body)
should_keep_stmt(used_vars, stmt) ==
    IF stmt.kind = "null" THEN FALSE
    ELSE IF stmt.kind = "VarStmt"
    THEN \/ stmt.has_init /\ has_side_effects(stmt.initializer)
         \/ stmt.name.lexeme \in used_vars
    ELSE TRUE

RECURSIVE eliminate_stmt(_, _)
eliminate_stmt(used_vars, stmt) ==
    LET eliminate(s) == Same(eliminate_stmt(used_vars, s))
        eliminate_list(list) ==
            Each(eliminate, SelectSeq(list, LAMBDA s : should_keep_stmt(used_vars, s)))
    IN  CASE stmt.kind \in {"Block", "IfStmt", "WhileStmt", "FunctionStmt"} ->
                 RebuildCompound(Same, eliminate, eliminate_list, stmt).x
          [] stmt.kind = "SwitchStmt" -> RebuildSwitch(Same, eliminate_list, stmt).x
          [] OTHER -> stmt

\* run never sets modified
DeadCodeEliminator_run(stmts) ==
    LET Eliminate(used_vars) ==
            Each(LAMBDA s : Same(eliminate_stmt(used_vars, s)),
                 SelectSeq(stmts, LAMBDA s : should_keep_stmt(used_vars, s)))
    IN  Eliminate(UnionOver(DeadCodeEliminator_analyze_stmt, stmts))

\* ---- CommonSubexpressionEliminator ----

RECURSIVE process_expr(_)
process_expr(expr) ==
    CASE expr.kind \in {"Binary", "Logical"} ->
             [expr EXCEPT !.left = process_expr(expr.left),
                          !.right = process_expr(expr.right)]
      [] expr.kind = "Unary" -> Unary(expr.op, process_expr(expr.right))
      [] expr.kind = "Grouping" -> Grouping(process_expr(expr.expression))
      [] OTHER -> expr

RECURSIVE process_stmt(_)
process_stmt(stmt) ==
    LET process(e) == Same(process_expr(e))
        process_list(list) == Each(process_stmt, list)
    IN  CASE stmt.kind \in {"ExprStmt", "PrintStmt", "VarStmt", "ReturnStmt"} ->
                 RebuildSimple(process, stmt)
          [] stmt.kind \in {"Block", "IfStmt", "WhileStmt", "FunctionStmt"} ->
                 RebuildCompound(process, process_stmt, process_list, stmt)
          [] OTHER -> Same(stmt)

CommonSubexpressionEliminator_run(stmts) == Each(process_stmt, stmts)

\* ---- LoopOptimizer ----

can_unroll(stmt) == FALSE

\* get_iteration_count is nullopt for every loop: no path unrolls
try_unroll_loop(loop_unrolling, stmt) ==
    IF ~loop_unrolling \/ ~can_unroll(stmt) THEN stmt ELSE stmt

RECURSIVE LoopOptimizer_optimize_stmt(_, _)
LoopOptimizer_optimize_stmt(loop_unrolling, stmt) ==
    LET optimize_body(s) == LoopOptimizer_optimize_stmt(loop_unrolling, s)
        optimize_list(list) == Each(optimize_body, list)
    IN  CASE stmt.kind = "WhileStmt" ->
                 RebuildCompound(Same, optimize_body, optimize_list,
                                 try_unroll_loop(loop_unrolling, stmt))
          [] stmt.kind \in {"Block", "IfStmt", "FunctionStmt"} ->
                 RebuildCompound(Same, optimize_body, optimize_list, stmt)
          [] OTHER -> Same(stmt)

LoopOptimizer_run(loop_unrolling, stmts) ==
    Each(LAMBDA s : LoopOptimizer_optimize_stmt(loop_unrolling, s), stmts)

\* ---- StrengthReducer ----

RECURSIVE SumOfSelf(_, _)
\* for (i < shift_amount) result = Binary(result, +, result)
SumOfSelf(result, shift_amount) ==
    IF shift_amount = 0 THEN result
    ELSE SumOfSelf(Binary(result, "PLUS", result), shift_amount - 1)

RECURSIVE HalvedTimes(_, _)
\* for (i < shift_amount) result = Binary(result, /, 2)
HalvedTimes(result, shift_amount) ==
    IF shift_amount = 0 THEN result
    ELSE HalvedTimes(Binary(result, "SLASH", NumLit(2)), shift_amount - 1)

\* Null where the method returns nullptr
reduce_multiplication(left, right) ==
    IF IsNumber(right) /\ is_power_of_two(right.n)
    THEN SumOfSelf(left, log2_int(right.n))
    ELSE Null

reduce_division(left, right) ==
    IF IsNumber(right) /\ is_power_of_two(right.n) /\ right.n >= 2
    THEN HalvedTimes(left, log2_int(right.n))
    ELSE Null

reduce_modulo(left, right) ==
    IF IsNumber(right) /\ is_power_of_two(right.n) /\ right.n >= 2
    THEN Binary(left, "MINUS", Binary(Binary(left, "SLASH", right), "STAR", right))
    ELSE Null

\* the Binary case of reduce_expr, both operands already reduced
ReduceBinary(op, left, right) ==
    LET reduced == CASE op = "STAR" -> reduce_multiplication(left.x, right.x)
                     [] op = "SLASH" -> reduce_division(left.x, right.x)
                     [] op = "PERCENT" -> reduce_modulo(left.x, right.x)
                     [] OTHER -> Null
    IN  IF reduced # Null THEN Rewritten(reduced, TRUE)
        ELSE Lift2(LAMBDA l, r : Binary(l, op, r), left, right)

RECURSIVE reduce_expr(_)
reduce_expr(expr) ==
    CASE expr.kind = "Binary" ->
             ReduceBinary(expr.op, reduce_expr(expr.left), reduce_expr(expr.right))
      [] expr.kind = "Unary" -> Lift1(LAMBDA r : Unary(expr.op, r), reduce_expr(expr.right))
      [] expr.kind = "Assign" ->
             Lift1(LAMBDA v : Assign(expr.name, v), reduce_expr(expr.value))
      [] OTHER -> Same(expr)

RECURSIVE reduce_stmt(_)
reduce_stmt(stmt) ==
    LET reduce_list(list) == Each(reduce_stmt, list)
    IN  CASE stmt.kind \in {"ExprStmt", "PrintStmt", "VarStmt", "ReturnStmt"} ->
                 RebuildSimple(reduce_expr, stmt)
          [] stmt.kind \in {"Block", "IfStmt", "WhileStmt", "FunctionStmt"} ->
                 RebuildCompound(reduce_expr, reduce_stmt, reduce_list, stmt)
          [] OTHER -> Same(stmt)

StrengthReducer_run(stmts) == Each(reduce_stmt, stmts)

\* ---- FunctionInliner ----

inline_expr(expr) == Same(expr)

RECURSIVE inline_stmt(_)
inline_stmt(stmt) ==
    CASE stmt.kind = "ExprStmt" -> RebuildSimple(inline_expr, stmt)
      [] stmt.kind = "Block" -> Lift1(Block, Each(inline_stmt, stmt.statements))
      [] OTHER -> Same(stmt)

FunctionInliner_run(stmts) == Each(inline_stmt, stmts)

\* ---- PeepholeOptimizer ----

\* the node optimize_double_negation returns; it differs from expr exactly
\* when it is the operand of the inner negation
optimize_double_negation(expr) ==
    IF /\ expr.kind = "Unary"
       /\ expr.op \in {"MINUS", "BANG"}
       /\ expr.right.kind = "Unary"
       /\ expr.right.op = expr.op
    THEN Rewritten(expr.right.right, TRUE)
    ELSE Same(expr)

\* optimize_boolean_operations returns expr
PeepholeOptimizer_optimize_expr(expr) == optimize_double_negation(expr)

RECURSIVE PeepholeOptimizer_optimize_stmt(_)
PeepholeOptimizer_optimize_stmt(stmt) ==
    CASE stmt.kind \in {"ExprStmt", "PrintStmt", "VarStmt"} ->
             RebuildSimple(PeepholeOptimizer_optimize_expr, stmt)
      [] stmt.kind = "Block" ->
             Lift1(Block, Each(PeepholeOptimizer_optimize_stmt, stmt.statements))
      [] OTHER -> Same(stmt)

PeepholeOptimizer_run(stmts) == Each(PeepholeOptimizer_optimize_stmt, stmts)

\* ---- Optimizer ----

\* struct OptimizerConfig with its default member initializers: the flags
\* initialize_passes reads, constant_propagation and optimize_level
OptimizerConfig ==
    [constant_folding |-> TRUE, constant_propagation |-> TRUE,
     algebraic_simplification |-> TRUE,
     dead_code_elimination |-> TRUE, common_subexpression_elimination |-> TRUE,
     loop_invariant_code_motion |-> TRUE, loop_unrolling |-> TRUE,
     strength_reduction |-> TRUE, function_inlining |-> TRUE,
     peephole_optimization |-> TRUE, optimize_level |-> 3]

\* the vector passes, each pass by its class name
initialize_passes(cfg) ==
    (IF cfg.constant_folding THEN <<"ConstantFolder">> ELSE <<>>)
    \o (IF cfg.algebraic_simplification THEN <<"AlgebraicSimplifier">> ELSE <<>>)
    \o (IF cfg.dead_code_elimination THEN <<"DeadCodeEliminator">> ELSE <<>>)
    \o (IF cfg.common_subexpression_elimination
        THEN <<"CommonSubexpressionEliminator">> ELSE <<>>)
    \o (IF cfg.loop_unrolling \/ cfg.loop_invariant_code_motion
        THEN <<"LoopOptimizer">> ELSE <<>>)
    \o (IF cfg.strength_reduction THEN <<"StrengthReducer">> ELSE <<>>)
    \o (IF cfg.function_inlining THEN <<"FunctionInliner">> ELSE <<>>)
    \o (IF cfg.peephole_optimization THEN <<"PeepholeOptimizer">> ELSE <<>>)

\* pass->run(current) together with pass->was_modified()
run(pass, cfg, current) ==
    CASE pass = "ConstantFolder" -> ConstantFolder_run(current)
      [] pass = "AlgebraicSimplifier" -> AlgebraicSimplifier_run(current)
      [] pass = "DeadCodeEliminator" -> DeadCodeEliminator_run(current)
      [] pass = "CommonSubexpressionEliminator" -> CommonSubexpressionEliminator_run(current)
      [] pass = "LoopOptimizer" -> LoopOptimizer_run(cfg.loop_unrolling, current)
      [] pass = "StrengthReducer" -> StrengthReducer_run(current)
      [] pass = "FunctionInliner" -> FunctionInliner_run(current)
      [] pass = "PeepholeOptimizer" -> PeepholeOptimizer_run(current)

RECURSIVE run_passes(_, _, _, _)
\* for (pass : passes) { current = pass->run(current); any_modified |= ... }
run_passes(pass_list, cfg, i, r) ==
    IF i > Len(pass_list) THEN r
    ELSE IF r.modified
    THEN run_passes(pass_list, cfg, i + 1, SetModified(run(pass_list[i], cfg, r.x)))
    ELSE run_passes(pass_list, cfg, i + 1, run(pass_list[i], cfg, r.x))

max_iterations == 10

\* one iteration of the loop of optimize: current before and after the
\* passes ran, and any_modified
Sweep(input, r) == [input |-> input, output |-> r.x, any_modified |-> r.modified]

\* the locals of optimize between two iterations of its loop, with the
\* iterations made so far, oldest first; stopped is set by the break
Iterating(current, iteration, stopped, iterations) ==
    [current |-> current, iteration |-> iteration, stopped |-> stopped,
     iterations |-> iterations]

\* iteration++; for (pass : passes) ...; if (!any_modified) break;
iterate(pass_list, cfg, w) ==
    LET Swept(r) ==
            Iterating(r.x, w.iteration + 1, ~r.modified,
                      Append(w.iterations, Sweep(w.current, r)))
    IN  Swept(run_passes(pass_list, cfg, 1, Rewritten(w.current, FALSE)))

RECURSIVE optimize_loop(_, _, _)
\* while (iteration < max_iterations) { ... }
optimize_loop(pass_list, cfg, w) ==
    IF w.iteration >= max_iterations \/ w.stopped THEN w
    ELSE optimize_loop(pass_list, cfg, iterate(pass_list, cfg, w))

\* Optimizer::optimize, with the iterations its loop made: current is what
\* it returns
optimize_iterations(pass_list, cfg, stmts) ==
    optimize_loop(pass_list, cfg, Iterating(stmts, 0, FALSE, <<>>))

optimize(pass_list, cfg, stmts) == optimize_iterations(pass_list, cfg, stmts).current

\* ---- the programs handed to the optimizer ----

OptNames == {"a", "b"}

\* the variable v read on line l
OptVar(v, l) == Variable(Tok(v, l, 8))

\* var v = e;
OptVarStmt(v, l, e) == VarStmt(Tok(v, l, 4), TRUE, e)

\* f()
OptCall(l) == Call(Variable(Tok("f", l, 0)), Tok(")", l, 2), <<>>)

OptExprs(l) ==
    LET a == OptVar("a", l)
    IN  {a, OptVar("b", l), BoolLit(TRUE), BoolLit(FALSE)}
        \cup {NumLit(n) : n \in {0, 1, 2, 4}}
        \cup {Binary(x, op, y) : x \in {a, NumLit(1), NumLit(2)},
                                 op \in {"PLUS", "MINUS", "STAR"},
                                 y \in {a, NumLit(0), NumLit(2), NumLit(4)}}
        \cup {Binary(a, op, NumLit(n)) : op \in {"SLASH", "PERCENT"}, n \in {1, 2, 4}}
        \cup {Binary(a, "SLASH", a), Binary(NumLit(1), "LESS", NumLit(2)),
              Binary(a, "LESS", NumLit(2)),
              Binary(BoolLit(TRUE), "EQUAL_EQUAL", BoolLit(FALSE))}
        \cup {Unary(op, x) : op \in {"MINUS", "BANG"}, x \in {a, NumLit(1), BoolLit(TRUE)}}
        \cup {Unary(op, Unary(op, a)) : op \in {"MINUS", "BANG"}}
        \cup {Grouping(Binary(a, "PLUS", NumLit(0))), Grouping(NumLit(2))}
        \cup {Logical(x, op, a) : x \in {BoolLit(TRUE), NumLit(0), OptVar("b", l)},
                                  op \in {"AND", "OR"}}
        \cup {Assign(Tok("a", l, 0), Binary(NumLit(1), "PLUS", NumLit(2))),
              Call(Variable(Tok("f", l, 0)), Tok(")", l, 8),
                   <<Binary(NumLit(1), "PLUS", NumLit(2))>>)}
        \cup {Binary(OptCall(l), "STAR", NumLit(n)) : n \in {0, 2}}
        \cup {Binary(NumLit(0), "STAR", OptCall(l))}

OptStmts(l) ==
    {OptVarStmt(v, l, e) : v \in OptNames, e \in OptExprs(l)}
        \cup {PrintStmt(e) : e \in OptExprs(l)}
        \cup {ExprStmt(e) : e \in OptExprs(l)}
        \cup {VarStmt(Tok("b", l, 4), FALSE, Null)}

\* the statements put inside a compound statement
OptInner(l) ==
    {PrintStmt(OptVar("b", l)), OptVarStmt("b", l, OptVar("a", l)),
     OptVarStmt("b", l, Binary(NumLit(1), "PLUS", NumLit(2))),
     ExprStmt(Binary(OptVar("a", l), "STAR", NumLit(2)))}

OptConds(l) ==
    {BoolLit(TRUE), BoolLit(FALSE), NumLit(0), OptVar("a", l),
     Binary(NumLit(1), "LESS", NumLit(2))}

\* the statements folding deletes: while (false) print b;  if (false) print b;
OptDeleted(l) ==
    {WhileStmt(BoolLit(FALSE), PrintStmt(OptVar("b", l))),
     IfStmt(BoolLit(FALSE), PrintStmt(OptVar("b", l)), FALSE, Null)}

\* a statement that folding deletes as the arm of an if or the body of a
\* while whose condition is not a literal
OptBraceless(l) ==
    {IfStmt(OptVar("a", l), d, FALSE, Null) : d \in OptDeleted(l)}
        \cup {IfStmt(OptVar("a", l), PrintStmt(OptVar("b", l)), TRUE, d) : d \in OptDeleted(l)}
        \cup {WhileStmt(OptVar("a", l), d) : d \in OptDeleted(l)}

OptCompounds(l) ==
    {IfStmt(c, Block(<<s>>), FALSE, Null) : c \in OptConds(l), s \in OptInner(l + 1)}
        \cup OptBraceless(l)
        \cup {IfStmt(c, Block(<<s>>), TRUE, Block(<<t>>)) :
                  c \in OptConds(l), s \in OptInner(l + 1), t \in OptInner(l + 3)}
        \cup {WhileStmt(c, Block(<<s>>)) : c \in OptConds(l), s \in OptInner(l + 1)}
        \cup {Block(<<s>>) : s \in OptInner(l + 1)}
        \cup {UnsafeBlock(<<s>>) : s \in OptInner(l + 1)}
        \cup {FunctionStmt(Tok("f", l, 4), <<>>, <<s>>) :
                  s \in OptInner(l + 1)
                      \cup {ReturnStmt(TRUE, Binary(NumLit(1), "PLUS", NumLit(2))),
                            ReturnStmt(FALSE, Null)}}
        \cup {SwitchStmt(OptVar("a", l), <<CaseClause(Binary(NumLit(1), "PLUS", NumLit(0)),
                                                      <<s>>)>>, d, IF d THEN <<t>> ELSE <<>>) :
                  s \in OptInner(l + 2), t \in OptInner(l + 4), d \in BOOLEAN}

\* var x = 42; var y = 10; var z = x + y; print z;
FoldingExample ==
    LET l == FirstLine
    IN  <<VarStmt(Tok("x", l, 4), TRUE, NumLit(42)),
          VarStmt(Tok("y", l + 1, 4), TRUE, NumLit(10)),
          VarStmt(Tok("z", l + 2, 4), TRUE,
                  Binary(Variable(Tok("x", l + 2, 8)), "PLUS",
                         Variable(Tok("y", l + 2, 12)))),
          PrintStmt(Variable(Tok("z", l + 3, 6)))>>

\* one statement, or var a = 1; and one statement, or the four statements
\* of FoldingExample
OptPrograms ==
    {<<s>> : s \in OptStmts(FirstLine) \cup OptCompounds(FirstLine)}
        \cup {<<OptVarStmt("a", FirstLine, NumLit(1)), s>> :
                  s \in OptStmts(FirstLine + 1) \cup OptCompounds(FirstLine + 1)}
        \cup {FoldingExample}

\* the flags of OptimizerConfig that initialize_passes reads
PassFlags ==
    {"constant_folding", "algebraic_simplification", "dead_code_elimination",
     "common_subexpression_elimination", "loop_invariant_code_motion",
     "loop_unrolling", "strength_reduction", "function_inlining",
     "peephole_optimization"}

\* the configuration in which exactly the flags of the set on are set
OnlyFlags(on) ==
    [f \in DOMAIN OptimizerConfig |->
        IF f \in PassFlags THEN f \in on ELSE OptimizerConfig[f]]

\* the default configuration, each pass switched off alone, no pass, one
\* pass alone, and the default flags at the optimization levels of -O0..-O3
OptimizerConfigs ==
    {OptimizerConfig}
        \cup {[OptimizerConfig EXCEPT ![f] = FALSE] :
                  f \in {"constant_folding", "algebraic_simplification",
                         "dead_code_elimination", "common_subexpression_elimination",
                         "strength_reduction", "function_inlining",
                         "peephole_optimization"}}
        \cup {[OptimizerConfig EXCEPT !.loop_unrolling = FALSE,
                                      !.loop_invariant_code_motion = FALSE]}
        \cup {OnlyFlags({})}
        \cup {OnlyFlags({f}) : f \in {"constant_folding", "algebraic_simplification",
                                       "dead_code_elimination"}}
        \cup {[OptimizerConfig EXCEPT !.optimize_level = n] : n \in 0..3}

\* ---- the sources handed to the compiler ----

\* struct CompilationOptions, the field compile passes to the code generator
CompilationOptions == [optimize |-> TRUE]

\* a source file: whether the lexer and the parser accept it, and the
\* statements the parser makes of it
Source(lexes, parses, parsed) ==
    [lexes |-> lexes, parses |-> parses, ast |-> parsed]

Sources ==
    {Source(TRUE, TRUE, p) : p \in Bodies(FirstLine, MaxBody) \cup OptPrograms}
        \cup {Source(FALSE, FALSE, <<>>), Source(TRUE, FALSE, <<>>)}

-----------------------------------------------------------------------------
(* The lexer (lexer.cpp).  The source is the sequence of its characters,   *)
(* each a string of length one; current and start are the C++ offsets      *)
(* (the next character is source_text[current + 1]).  The sources checked  *)
(* hold letters, blanks, newlines and the characters ; { } ( ) " / *, so   *)
(* the branches of scan_token for other characters (digits, escapes in a   *)
(* string) are left out.                                                   *)

Token(type, lexeme, literal, line, column) ==
    [type |-> type, lexeme |-> lexeme, literal |-> literal, line |-> line,
     column |-> column]

\* the part of keywords that the sources can spell
keywords ==
    [text \in {"unsafe", "llvm_inline", "var", "print", "while", "for", "switch", "case",
               "fun", "break", "return"} |->
        CASE text = "unsafe" -> "UNSAFE"
          [] text = "llvm_inline" -> "LLVM_INLINE"
          [] text = "var" -> "VAR"
          [] text = "print" -> "PRINT"
          [] text = "while" -> "WHILE"
          [] text = "for" -> "FOR"
          [] text = "switch" -> "SWITCH"
          [] text = "case" -> "CASE"
          [] text = "fun" -> "FUN"
          [] text = "break" -> "BREAK"
          [] text = "return" -> "RETURN"]

\* a Lexer just constructed; starts logs the value of start at each add_token
LexerObject ==
    [start |-> 0, current |-> 0, line |-> 1, column |-> 1, start_column |-> 1,
     tokens |-> <<>>, starts |-> <<>>, errors |-> <<>>, thrown |-> FALSE]

Lexer_is_at_end(text, lx) == lx.current >= Len(text)

Lexer_peek(text, lx) == IF Lexer_is_at_end(text, lx) THEN "NUL" ELSE text[lx.current + 1]

peek_next(text, lx) ==
    IF lx.current + 1 >= Len(text) THEN "NUL" ELSE text[lx.current + 2]

\* advance, for its effect on the lexer (the character it returns is
\* Lexer_peek before the call)
Lexer_advance(text, lx) ==
    IF Lexer_is_at_end(text, lx) THEN lx
    ELSE [lx EXCEPT !.current = @ + 1, !.column = @ + 1]

\* whether match(expected) returns true; it then advances
Matches(text, lx, expected) ==
    ~Lexer_is_at_end(text, lx) /\ text[lx.current + 1] = expected

RECURSIVE substr(_, _, _)
\* source.substr(pos, count)
substr(text, pos, count) ==
    IF count <= 0 THEN "" ELSE text[pos + 1] \o substr(text, pos + 1, count - 1)

add_token(text, lx, type, literal) ==
    [lx EXCEPT !.tokens = Append(@, Token(type, substr(text, lx.start, lx.current - lx.start),
                                          literal, lx.line, lx.start_column)),
               !.starts = Append(@, lx.start)]

\* throw LexerError(message, line, column, ...): caught by scan_tokens
LexerError(lx, message, line, column) ==
    [lx EXCEPT !.errors = Append(@, [message |-> message, line |-> line, column |-> column])]

is_alpha(c) ==
    c \in {"a", "b", "c", "d", "e", "f", "g", "h", "i", "j", "k", "l", "m", "n", "o",
           "p", "q", "r", "s", "t", "u", "v", "w", "x", "y", "z", "_"}

RECURSIVE line_comment(_, _)
\* while (peek() != '\n' && !is_at_end()) advance();
line_comment(text, lx) ==
    IF Lexer_peek(text, lx) # "\n" /\ ~Lexer_is_at_end(text, lx)
    THEN line_comment(text, Lexer_advance(text, lx))
    ELSE lx

RECURSIVE block_comment_loop(_, _, _)
\* the while loop of block_comment and the check after it
block_comment_loop(text, lx, depth) ==
    IF depth > 0 /\ ~Lexer_is_at_end(text, lx)
    THEN IF Lexer_peek(text, lx) = "/" /\ peek_next(text, lx) = "*"
         THEN block_comment_loop(text, Lexer_advance(text, Lexer_advance(text, lx)), depth + 1)
         ELSE IF Lexer_peek(text, lx) = "*" /\ peek_next(text, lx) = "/"
         THEN block_comment_loop(text, Lexer_advance(text, Lexer_advance(text, lx)), depth - 1)
         ELSE IF Lexer_peek(text, lx) = "\n"
         THEN block_comment_loop(
                  text, Lexer_advance(text, [lx EXCEPT !.line = @ + 1, !.column = 0]), depth)
         ELSE block_comment_loop(text, Lexer_advance(text, lx), depth)
    ELSE IF depth > 0
    THEN LexerError(lx, "Unterminated block comment", lx.line, lx.column)
    ELSE lx

block_comment(text, lx) == block_comment_loop(text, lx, 1)

RECURSIVE string_loop(_, _, _)
\* the while loop of string and the code after it; value is the local
string_loop(text, lx, value) ==
    IF Lexer_peek(text, lx) # "\"" /\ ~Lexer_is_at_end(text, lx)
    THEN IF Lexer_peek(text, lx) = "\n"
         THEN string_loop(text, Lexer_advance(text, [lx EXCEPT !.line = @ + 1, !.column = 0]),
                          value \o "\n")
         ELSE string_loop(text, Lexer_advance(text, lx), value \o Lexer_peek(text, lx))
    ELSE IF Lexer_is_at_end(text, lx)
    THEN LexerError(lx, "Unterminated string literal: missing closing quote",
                    lx.line, lx.column)
    ELSE add_token(text, Lexer_advance(text, lx), "STRING", value)

string(text, lx) == string_loop(text, lx, "")

RECURSIVE identifier(_, _)
identifier(text, lx) ==
    LET lexeme == substr(text, lx.start, lx.current - lx.start)
    IN  IF is_alpha(Lexer_peek(text, lx)) THEN identifier(text, Lexer_advance(text, lx))
        ELSE IF Len(lexeme) > 255
        THEN LexerError(lx, "Identifier too long", lx.line, lx.start_column)
        ELSE add_token(text, lx,
                       IF lexeme \in DOMAIN keywords THEN keywords[lexeme] ELSE "IDENTIFIER",
                       "")

\* scan_token after char c = advance()
scan_token(text, c, lx) ==
    CASE c = "(" -> add_token(text, lx, "LPAREN", "")
      [] c = ")" -> add_token(text, lx, "RPAREN", "")
      [] c = "{" -> add_token(text, lx, "LBRACE", "")
      [] c = "}" -> add_token(text, lx, "RBRACE", "")
      [] c = ";" -> add_token(text, lx, "SEMICOLON", "")
      [] c = ":" -> add_token(text, lx, "COLON", "")
      [] c = "*" -> add_token(text, lx, "STAR", "")
      [] c = "/" ->
            IF Matches(text, lx, "/") THEN line_comment(text, Lexer_advance(text, lx))
            ELSE IF Matches(text, lx, "*") THEN block_comment(text, Lexer_advance(text, lx))
            ELSE add_token(text, lx, "SLASH", "")
      [] c = " " -> lx
      [] c = "\n" -> [lx EXCEPT !.line = @ + 1, !.column = 0]
      [] c = "\"" -> string(text, lx)
      [] OTHER ->
            IF is_alpha(c) THEN identifier(text, lx)
            ELSE LexerError(lx, "Unexpected character", lx.line, lx.start_column)

\* start = current; start_column = column; scan_token();
scan_one(text, lx) ==
    scan_token(text, Lexer_peek(text, lx),
               Lexer_advance(text, [lx EXCEPT !.start = lx.current,
                                              !.start_column = lx.column]))

RECURSIVE scan_loop(_, _)
\* while (!is_at_end()) { ... }
scan_loop(text, lx) ==
    IF Lexer_is_at_end(text, lx) THEN lx ELSE scan_loop(text, scan_one(text, lx))

\* Lexer::scan_tokens: the lexer as the call leaves it; thrown tells that
\* it threw the runtime_error that bundles the lexical errors
scan_tokens(text) ==
    LET Scanned(lx) ==
            IF lx.errors # <<>> THEN [lx EXCEPT !.thrown = TRUE]
            ELSE [lx EXCEPT !.tokens = Append(@, Token("END_OF_FILE", "", "", lx.line,
                                                       lx.column))]
    IN  Scanned(scan_loop(text, LexerObject))

-----------------------------------------------------------------------------
(* The parser (parser.cpp).  The parser is the record p threaded through   *)
(* the recursive descent: current, in_unsafe_block, the vector errors and, *)
(* as for the analyzer, the exception in flight: thrown is "none",         *)
(* "ParserError" (exc is then the error) or "length_error".  node is the   *)
(* statement or expression the last method returned.  inline_log records   *)
(* each call of llvm_inline_statement.  The sources checked hold only the  *)
(* tokens of expression statements made of one name, of print, while, for, *)
(* switch, break and return statements, of blocks, of functions without    *)
(* parameters, of unsafe blocks and of llvm_inline statements; the         *)
(* branches of declaration, statement and primary for other tokens are     *)
(* left out, and an expression is a primary.                               *)

\* the lines std::getline reads from the source: one for each newline and
\* one for the characters after the last newline, when there are some
getline_count(text) ==
    Cardinality({i \in 1..Len(text) : text[i] = "\n"})
        + (IF text # <<>> /\ text[Len(text)] # "\n" THEN 1 ELSE 0)

\* ParserError::format_error reaches std::string(tok.column - 1, ' ') when
\* the source has the line of the token; the count is a size_t, so a
\* column below 1 asks for more than max_size() characters and the
\* constructor throws std::length_error
format_error_throws(text, tok) ==
    /\ tok.line >= 1
    /\ tok.line <= getline_count(text)
    /\ tok.column - 1 < 0

\* throw error(token, message, hint)
ThrowError(text, p, token, message) ==
    IF format_error_throws(text, token)
    THEN [p EXCEPT !.thrown = "length_error"]
    ELSE [p EXCEPT !.thrown = "ParserError",
                   !.exc = [token |-> token, message |-> message]]

ParserObject ==
    [current |-> 0, loop_depth |-> 0, block_depth |-> 0, function_depth |-> 0,
     in_unsafe_block |-> FALSE, errors |-> <<>>, thrown |-> "none",
     exc |-> Null, node |-> Null, inline_log |-> <<>>]

MAX_LOOP_DEPTH == 100
MAX_BLOCK_DEPTH == 100
MAX_FUNCTION_DEPTH == 100

\* the parser in a handler that caught the ParserError in flight
InHandler(r) == [r EXCEPT !.thrown = "none", !.exc = Null]

Parser_peek(toks, p) == toks[p.current + 1]

previous(toks, p) == toks[p.current]

Parser_is_at_end(toks, p) == Parser_peek(toks, p).type = "END_OF_FILE"

check(toks, p, type) == ~Parser_is_at_end(toks, p) /\ Parser_peek(toks, p).type = type

Parser_advance(toks, p) ==
    IF ~Parser_is_at_end(toks, p) THEN [p EXCEPT !.current = @ + 1] ELSE p

\* primary: the branches for IDENTIFIER and LLVM_INLINE, and the error at
\* the end of the method
primary(text, toks, p) ==
    IF check(toks, p, "IDENTIFIER") \/ check(toks, p, "LLVM_INLINE")
    THEN [Parser_advance(toks, p) EXCEPT !.node = Variable(Parser_peek(toks, p))]
    ELSE ThrowError(text, p, Parser_peek(toks, p), "Expect expression")

\* expression: assignment, or_expr, ..., unary and call each return what
\* the next level returns when none of their operator tokens follows
expression(text, toks, p) == primary(text, toks, p)

expression_statement(text, toks, p) ==
    LET Parsed(r) ==
            IF r.thrown = "ParserError"
            THEN ThrowError(text, [r EXCEPT !.thrown = "none", !.exc = Null],
                            Parser_peek(toks, r), "Invalid expression statement")
            ELSE IF r.thrown # "none" THEN r
            ELSE IF ~check(toks, r, "SEMICOLON")
            THEN ThrowError(text, r, Parser_peek(toks, r), "Expect ';' after expression")
            ELSE [Parser_advance(toks, r) EXCEPT !.node = ExprStmt(r.node)]
    IN  Parsed(expression(text, toks, p))

\* print_statement, entered after match(PRINT)
print_statement(text, toks, p) ==
    LET keyword == previous(toks, p)
        Parsed(r) ==
            IF r.thrown = "ParserError"
            THEN ThrowError(text, InHandler(r), keyword,
                            "Invalid expression in print statement")
            ELSE IF r.thrown # "none" THEN r
            ELSE IF ~check(toks, r, "SEMICOLON")
            THEN ThrowError(text, r, Parser_peek(toks, r),
                            "Expect ';' after value in print statement")
            ELSE [Parser_advance(toks, r) EXCEPT !.node = PrintStmt(r.node)]
    IN  Parsed(expression(text, toks, p))

\* return_statement, entered after match(RETURN)
return_statement(text, toks, p) ==
    LET keyword == previous(toks, p)
        Ended(r, has_value) ==
            IF r.thrown = "ParserError"
            THEN ThrowError(text, InHandler(r), keyword, "Invalid return value expression")
            ELSE IF r.thrown # "none" THEN r
            ELSE IF ~check(toks, r, "SEMICOLON")
            THEN ThrowError(text, r, Parser_peek(toks, r), "Expect ';' after return value")
            ELSE [Parser_advance(toks, r) EXCEPT
                      !.node = ReturnStmt(has_value, IF has_value THEN r.node ELSE Null)]
    IN  IF p.function_depth = 0
        THEN ThrowError(text, p, keyword, "Cannot use 'return' outside of a function")
        ELSE IF ~check(toks, p, "SEMICOLON") THEN Ended(expression(text, toks, p), TRUE)
        ELSE Ended(p, FALSE)

BreakStmt(keyword) == [kind |-> "BreakStmt", keyword |-> keyword]

\* break_statement without its test of loop_depth
break_statement_unchecked(text, toks, p) ==
    IF ~check(toks, p, "SEMICOLON")
    THEN ThrowError(text, p, Parser_peek(toks, p), "Expect ';' after 'break'")
    ELSE [Parser_advance(toks, p) EXCEPT !.node = BreakStmt(previous(toks, p))]

\* break_statement, entered after match(BREAK)
break_statement(text, toks, p) ==
    LET keyword == previous(toks, p)
    IN  IF p.loop_depth = 0
        THEN ThrowError(text, p, keyword, "Cannot use 'break' outside of a loop or switch")
        ELSE IF ~check(toks, p, "SEMICOLON")
        THEN ThrowError(text, p, Parser_peek(toks, p), "Expect ';' after 'break'")
        ELSE [Parser_advance(toks, p) EXCEPT !.node = BreakStmt(keyword)]

LLVMInlineStmt(keyword, llvm_code) ==
    [kind |-> "LLVMInlineStmt", keyword |-> keyword, llvm_code |-> llvm_code]

\* llvm_inline_statement, entered after match(LLVM_INLINE)
llvm_inline_statement(text, toks, p0) ==
    LET keyword == previous(toks, p0)
        p == [p0 EXCEPT !.inline_log =
                 Append(@, [keyword |-> p0.current, rejected |-> ~p0.in_unsafe_block])]
        Closed(p3, code) ==
            IF ~check(toks, p3, "SEMICOLON")
            THEN ThrowError(text, p3, Parser_peek(toks, p3),
                            "Expect ';' after llvm_inline() call")
            ELSE [Parser_advance(toks, p3) EXCEPT !.node = LLVMInlineStmt(keyword, code)]
        Code(p2) ==
            IF ~check(toks, p2, "RPAREN")
            THEN ThrowError(text, p2, Parser_peek(toks, p2), "Expect ')' after LLVM IR code")
            ELSE Closed(Parser_advance(toks, p2), previous(toks, p2).literal)
        Opened(p1) ==
            IF ~check(toks, p1, "STRING")
            THEN ThrowError(text, p1, Parser_peek(toks, p1),
                            "Expect string literal with LLVM IR code")
            ELSE Code(Parser_advance(toks, p1))
    IN  IF ~p.in_unsafe_block
        THEN ThrowError(text, p, keyword, "llvm_inline() requires unsafe context")
        ELSE IF ~check(toks, p, "LPAREN")
        THEN ThrowError(text, p, Parser_peek(toks, p), "Expect '(' after 'llvm_inline'")
        ELSE Opened(Parser_advance(toks, p))

RECURSIVE statement(_, _, _)
RECURSIVE declaration(_, _, _)
RECURSIVE unsafe_statements(_, _, _, _)
RECURSIVE block_statements(_, _, _, _)
RECURSIVE case_statements(_, _, _, _)
RECURSIVE switch_cases(_, _, _, _)

\* the while loop of block; an exception leaves it at once
block_statements(text, toks, p, stmts) ==
    LET Declared(r) ==
            IF r.thrown # "none" THEN r
            ELSE block_statements(text, toks, r,
                                  IF r.node # Null THEN Append(stmts, r.node) ELSE stmts)
    IN  IF ~check(toks, p, "RBRACE") /\ ~Parser_is_at_end(toks, p)
        THEN Declared(declaration(text, toks, [p EXCEPT !.node = Null]))
        ELSE [p EXCEPT !.node = stmts]

\* block, entered after the opening brace; node is the vector it returns
block(text, toks, p) ==
    LET Closed(r) ==
            IF r.thrown # "none" THEN r
            ELSE IF ~check(toks, r, "RBRACE")
            THEN ThrowError(text, r, Parser_peek(toks, r), "Expect '}' after block")
            ELSE Parser_advance(toks, r)
        Left(r) == [r EXCEPT !.block_depth = @ - 1]
    IN  IF p.block_depth + 1 > MAX_BLOCK_DEPTH
        THEN ThrowError(text, p, Parser_peek(toks, p), "Block nesting depth exceeds maximum")
        ELSE Left(Closed(block_statements(text, toks,
                                          [p EXCEPT !.block_depth = @ + 1], <<>>)))

\* function("function"), entered after match(FUN); the sources have no
\* parameters, so only the consume of the closing parenthesis is left of
\* the parameter list
function(text, toks, p) ==
    LET name == Parser_peek(toks, p)
        Left(r) == [r EXCEPT !.function_depth = @ - 1]
        Bodied(r) ==
            IF r.thrown # "none" THEN r
            ELSE [r EXCEPT !.node = FunctionStmt(name, <<>>, r.node)]
        Braced(p3) ==
            IF ~check(toks, p3, "LBRACE")
            THEN ThrowError(text, p3, Parser_peek(toks, p3), "Expect '{' before function body")
            ELSE IF p3.function_depth + 1 > MAX_FUNCTION_DEPTH
            THEN ThrowError(text, Parser_advance(toks, p3), name,
                            "Function nesting depth exceeds maximum")
            ELSE Left(Bodied(block(text, toks,
                                   [Parser_advance(toks, p3) EXCEPT !.function_depth = @ + 1])))
        Opened(p2) ==
            IF ~check(toks, p2, "RPAREN")
            THEN ThrowError(text, p2, Parser_peek(toks, p2), "Expect ')' after parameters")
            ELSE Braced(Parser_advance(toks, p2))
        Named(p1) ==
            IF ~check(toks, p1, "LPAREN")
            THEN ThrowError(text, p1, Parser_peek(toks, p1), "Expect '(' after function name")
            ELSE Opened(Parser_advance(toks, p1))
    IN  IF ~check(toks, p, "IDENTIFIER")
        THEN ThrowError(text, p, Parser_peek(toks, p), "Expect function name")
        ELSE Named(Parser_advance(toks, p))

\* while_statement, entered after match(WHILE)
while_statement(text, toks, p) ==
    LET keyword == previous(toks, p)
        Left(r) == [r EXCEPT !.loop_depth = @ - 1]
        Bodied(condition, r) ==
            IF r.thrown # "none" THEN r
            ELSE [r EXCEPT !.node = WhileStmt(condition, r.node)]
        Conditioned(r) ==
            IF r.thrown = "ParserError"
            THEN ThrowError(text, InHandler(r), keyword, "Invalid condition in while loop")
            ELSE IF r.thrown # "none" THEN r
            ELSE IF ~check(toks, r, "RPAREN")
            THEN ThrowError(text, r, Parser_peek(toks, r), "Expect ')' after while condition")
            ELSE Bodied(r.node, statement(text, toks, Parser_advance(toks, r)))
        Tried(p1) ==
            IF ~check(toks, p1, "LPAREN")
            THEN ThrowError(text, p1, Parser_peek(toks, p1), "Expect '(' after 'while'")
            ELSE Conditioned(expression(text, toks, Parser_advance(toks, p1)))
    IN  IF p.loop_depth + 1 > MAX_LOOP_DEPTH
        THEN ThrowError(text, p, keyword, "Loop nesting depth exceeds maximum")
        ELSE Left(Tried([p EXCEPT !.loop_depth = @ + 1]))

\* for_statement, entered after match(FOR); the sources have no var in the
\* first clause.  The loop is lowered to a while statement.
for_statement(text, toks, p) ==
    LET for_keyword == previous(toks, p)
        Left(r) == [r EXCEPT !.loop_depth = @ - 1]
        Lowered(initializer, condition, increment, body) ==
            LET stepped == IF increment # Null THEN Block(<<body, ExprStmt(increment)>>)
                           ELSE body
                loop == WhileStmt(IF condition # Null THEN condition ELSE BoolLit(TRUE),
                                  stepped)
            IN  IF initializer # Null THEN Block(<<initializer, loop>>) ELSE loop
        Bodied(initializer, condition, increment, r) ==
            IF r.thrown # "none" THEN r
            ELSE [r EXCEPT !.node = Lowered(initializer, condition, increment, r.node)]
        Closed(initializer, condition, increment, r) ==
            IF r.thrown = "ParserError"
            THEN ThrowError(text, InHandler(r), for_keyword, "Invalid increment in for loop")
            ELSE IF r.thrown # "none" THEN r
            ELSE IF ~check(toks, r, "RPAREN")
            THEN ThrowError(text, r, Parser_peek(toks, r), "Expect ')' after for clauses")
            ELSE Bodied(initializer, condition, increment,
                        statement(text, toks, Parser_advance(toks, r)))
        Incremented(initializer, condition, r) ==
            IF ~check(toks, r, "RPAREN")
            THEN Closed(initializer, condition, expression(text, toks, r).node,
                        expression(text, toks, r))
            ELSE Closed(initializer, condition, Null, r)
        Conditioned(initializer, condition, r) ==
            IF r.thrown = "ParserError"
            THEN ThrowError(text, InHandler(r), for_keyword, "Invalid condition in for loop")
            ELSE IF r.thrown # "none" THEN r
            ELSE IF ~check(toks, r, "SEMICOLON")
            THEN ThrowError(text, r, Parser_peek(toks, r), "Expect ';' after loop condition")
            ELSE Incremented(initializer, condition, Parser_advance(toks, r))
        Initialized(initializer, r) ==
            IF r.thrown # "none" THEN r
            ELSE IF ~check(toks, r, "SEMICOLON")
            THEN Conditioned(initializer, expression(text, toks, r).node,
                             expression(text, toks, r))
            ELSE Conditioned(initializer, Null, r)
        Tried(p1) ==
            IF ~check(toks, p1, "LPAREN")
            THEN ThrowError(text, p1, Parser_peek(toks, p1), "Expect '(' after 'for'")
            ELSE IF check(toks, Parser_advance(toks, p1), "SEMICOLON")
            THEN Initialized(Null, Parser_advance(toks, Parser_advance(toks, p1)))
            ELSE Initialized(
                     expression_statement(text, toks, Parser_advance(toks, p1)).node,
                     expression_statement(text, toks, Parser_advance(toks, p1)))
    IN  IF p.loop_depth + 1 > MAX_LOOP_DEPTH
        THEN ThrowError(text, p, for_keyword, "Loop nesting depth exceeds maximum")
        ELSE Left(Tried([p EXCEPT !.loop_depth = @ + 1, !.node = Null]))

\* the statements of one case clause of switch_statement
case_statements(text, toks, p, stmts) ==
    LET Declared(r) ==
            IF r.thrown # "none" THEN r
            ELSE case_statements(text, toks, r,
                                 IF r.node # Null THEN Append(stmts, r.node) ELSE stmts)
    IN  IF /\ ~check(toks, p, "CASE") /\ ~check(toks, p, "DEFAULT")
           /\ ~check(toks, p, "RBRACE") /\ ~Parser_is_at_end(toks, p)
        THEN Declared(declaration(text, toks, [p EXCEPT !.node = Null]))
        ELSE [p EXCEPT !.node = stmts]

\* the while loop of switch_statement; the sources have no default clause
switch_cases(text, toks, p, cases) ==
    LET Claused(case_value, r) ==
            IF r.thrown # "none" THEN r
            ELSE switch_cases(text, toks, r, Append(cases, CaseClause(case_value, r.node)))
        Valued(r) ==
            IF r.thrown = "ParserError"
            THEN ThrowError(text, InHandler(r), previous(toks, r), "Invalid case value")
            ELSE IF r.thrown # "none" THEN r
            ELSE IF ~check(toks, r, "COLON")
            THEN ThrowError(text, r, Parser_peek(toks, r), "Expect ':' after case value")
            ELSE Claused(r.node, case_statements(text, toks, Parser_advance(toks, r), <<>>))
    IN  IF ~check(toks, p, "RBRACE") /\ ~Parser_is_at_end(toks, p)
        THEN IF check(toks, p, "CASE")
             THEN Valued(expression(text, toks, Parser_advance(toks, p)))
             ELSE ThrowError(text, p, Parser_peek(toks, p),
                             "Expect 'case' or 'default' in switch body")
        ELSE [p EXCEPT !.node = cases]

\* switch_statement, entered after match(SWITCH)
switch_statement(text, toks, p) ==
    LET keyword == previous(toks, p)
        Left(r) == [r EXCEPT !.loop_depth = @ - 1]
        Closed(condition, r) ==
            IF r.thrown # "none" THEN r
            ELSE IF ~check(toks, r, "RBRACE")
            THEN ThrowError(text, r, Parser_peek(toks, r), "Expect '}' after switch body")
            ELSE [Parser_advance(toks, r) EXCEPT
                      !.node = SwitchStmt(condition, r.node, FALSE, <<>>)]
        Braced(condition, r) ==
            IF ~check(toks, r, "LBRACE")
            THEN ThrowError(text, r, Parser_peek(toks, r), "Expect '{' before switch body")
            ELSE Left(Closed(condition,
                             switch_cases(text, toks,
                                          [Parser_advance(toks, r) EXCEPT !.loop_depth = @ + 1],
                                          <<>>)))
        Conditioned(r) ==
            IF r.thrown = "ParserError"
            THEN ThrowError(text, InHandler(r), keyword, "Invalid condition in switch")
            ELSE IF r.thrown # "none" THEN r
            ELSE IF ~check(toks, r, "RPAREN")
            THEN ThrowError(text, r, Parser_peek(toks, r), "Expect ')' after switch condition")
            ELSE Braced(r.node, Parser_advance(toks, r))
    IN  IF ~check(toks, p, "LPAREN")
        THEN ThrowError(text, p, Parser_peek(toks, p), "Expect '(' after 'switch'")
        ELSE Conditioned(expression(text, toks, Parser_advance(toks, p)))

\* declaration; the sources have neither import nor var
declaration(text, toks, p) ==
    IF check(toks, p, "FUN") THEN function(text, toks, Parser_advance(toks, p))
    ELSE statement(text, toks, p)

\* the while loop of unsafe_statement; an exception leaves it at once
unsafe_statements(text, toks, p, stmts) ==
    LET Declared(r) ==
            IF r.thrown # "none" THEN r
            ELSE unsafe_statements(text, toks, r,
                                   IF r.node # Null THEN Append(stmts, r.node) ELSE stmts)
    IN  IF ~check(toks, p, "RBRACE") /\ ~Parser_is_at_end(toks, p)
        THEN Declared(declaration(text, toks, p))
        ELSE [p EXCEPT !.node = stmts]

\* unsafe_statement, entered after match(UNSAFE)
unsafe_statement(text, toks, p) ==
    LET prev_unsafe_state == p.in_unsafe_block
        Body(r) ==
            IF r.thrown # "none" THEN r
            ELSE IF ~check(toks, r, "RBRACE")
            THEN ThrowError(text, r, Parser_peek(toks, r), "Expect '}' after unsafe block")
            ELSE [Parser_advance(toks, r) EXCEPT !.in_unsafe_block = prev_unsafe_state,
                                                 !.node = UnsafeBlock(r.node)]
    IN  IF ~check(toks, p, "LBRACE")
        THEN ThrowError(text, p, Parser_peek(toks, p), "Expect '{' after 'unsafe'")
        ELSE Body(unsafe_statements(
                      text, toks, [Parser_advance(toks, p) EXCEPT !.in_unsafe_block = TRUE],
                      <<>>))

statement(text, toks, p) ==
    LET Blocked(r) == IF r.thrown # "none" THEN r ELSE [r EXCEPT !.node = Block(r.node)]
    IN  IF check(toks, p, "PRINT") THEN print_statement(text, toks, Parser_advance(toks, p))
        ELSE IF check(toks, p, "WHILE")
        THEN while_statement(text, toks, Parser_advance(toks, p))
        ELSE IF check(toks, p, "FOR") THEN for_statement(text, toks, Parser_advance(toks, p))
        ELSE IF check(toks, p, "SWITCH")
        THEN switch_statement(text, toks, Parser_advance(toks, p))
        ELSE IF check(toks, p, "RETURN")
        THEN return_statement(text, toks, Parser_advance(toks, p))
        ELSE IF check(toks, p, "BREAK")
        THEN break_statement(text, toks, Parser_advance(toks, p))
        ELSE IF check(toks, p, "UNSAFE")
        THEN unsafe_statement(text, toks, Parser_advance(toks, p))
        ELSE IF check(toks, p, "LLVM_INLINE")
        THEN llvm_inline_statement(text, toks, Parser_advance(toks, p))
        ELSE IF check(toks, p, "LBRACE")
        THEN Blocked(block(text, toks, Parser_advance(toks, p)))
        ELSE expression_statement(text, toks, p)

RECURSIVE synchronize_loop(_, _)
\* the while loop of synchronize
synchronize_loop(toks, p) ==
    IF Parser_is_at_end(toks, p) THEN p
    ELSE IF previous(toks, p).type = "SEMICOLON" THEN p
    ELSE IF Parser_peek(toks, p).type \in {"VAR", "FUN", "IF", "WHILE", "FOR", "PRINT",
                                            "RETURN", "SWITCH", "BREAK"}
    THEN p
    ELSE synchronize_loop(toks, Parser_advance(toks, p))

synchronize(toks, p) == synchronize_loop(toks, Parser_advance(toks, p))

\* what parse does with the outcome r of one declaration(): it catches a
\* ParserError, records it and synchronizes; stmts is the local statements
Caught(toks, r, stmts) ==
    IF r.thrown = "ParserError"
    THEN [p |-> synchronize(toks, [r EXCEPT !.errors = Append(@, r.exc),
                                            !.thrown = "none", !.exc = Null]),
          statements |-> stmts]
    ELSE [p |-> r,
          statements |-> IF r.thrown = "none" /\ r.node # Null
                         THEN Append(stmts, r.node) ELSE stmts]

RECURSIVE parse_loop(_, _, _)
\* while (!is_at_end()) { try { ... } catch (const ParserError& e) { ... } }
parse_loop(text, toks, w) ==
    IF Parser_is_at_end(toks, w.p) \/ w.p.thrown # "none" THEN w
    ELSE parse_loop(text, toks,
                    Caught(toks, declaration(text, toks, [w.p EXCEPT !.node = Null]),
                           w.statements))

\* Parser::parse: how the call ends ("returned", with the statements;
\* "runtime_error", the bundle of the recorded errors; or the exception
\* that passed through it), and the parser as the call leaves it
parse(text, toks) ==
    LET Ended(w) ==
            [outcome |-> IF w.p.thrown # "none" THEN w.p.thrown
                         ELSE IF w.p.errors # <<>> THEN "runtime_error"
                         ELSE "returned",
             statements |-> IF w.p.thrown = "none" /\ w.p.errors = <<>>
                            THEN w.statements ELSE <<>>,
             bundled |-> IF w.p.thrown = "none" THEN w.p.errors ELSE <<>>,
             errors |-> w.p.errors,
             in_unsafe_block |-> w.p.in_unsafe_block,
             inline_log |-> w.p.inline_log,
             current |-> w.p.current]
    IN  Ended(parse_loop(text, toks, [p |-> ParserObject, statements |-> <<>>]))

\* ---- the sources handed to the lexer and to the parser ----

MaxLexPieces == 5    \* pieces of a source handed to the lexer alone
MaxPieces == 5       \* pieces of a source handed to lexer and parser

\* the pieces the lexer's sources are made of
LexPieces ==
    {<<"a">>, <<";">>, <<" ">>, <<"\n">>, <<"/", "*">>, <<"*", "/">>, <<"\"">>}

\* the pieces the parser's sources are made of; each but the newline is
\* followed by a blank
ParsePieces ==
    {<<"u", "n", "s", "a", "f", "e", " ", "{", " ">>,
     <<"a", " ">>, <<";", " ">>, <<"}", " ">>, <<"\n">>,
     <<"l", "l", "v", "m", "_", "i", "n", "l", "i", "n", "e", "(", "\"", "x", "\"", ")",
       ";", " ">>}

RECURSIVE Concatenations(_, _)
\* the texts made of exactly n of the pieces
Concatenations(pieces, n) ==
    IF n = 0 THEN {<<>>}
    ELSE {piece \o rest : piece \in pieces, rest \in Concatenations(pieces, n - 1)}

LexSources == UNION {Concatenations(LexPieces, n) : n \in 0..MaxLexPieces}

ParseSources == UNION {Concatenations(ParsePieces, n) : n \in 0..MaxPieces}

MaxDeclarations == 5 \* pieces of a source with faulty declarations
MaxNesting == 4      \* pieces of a source with loops and functions

\* the pieces of the sources with faulty declarations: a print statement,
\* one without its semicolon, one without its expression, and a newline
RecoveryPieces ==
    {<<"p", "r", "i", "n", "t", " ", "a", " ", ";", " ">>,
     <<"p", "r", "i", "n", "t", " ", "a", " ">>,
     <<"p", "r", "i", "n", "t", " ", ";", " ">>,
     <<"\n">>}

\* the pieces of the sources with loops, a switch, functions, break and
\* return: while(a){  for(;;)  switch(a){case a:  fun f(){  break;  return;  }
\* and the whole function fun g(){return;}
NestingPieces ==
    {<<"w", "h", "i", "l", "e", "(", "a", ")", "{">>,
     <<"f", "o", "r", "(", ";", ";", ")">>,
     <<"s", "w", "i", "t", "c", "h", "(", "a", ")", "{", "c", "a", "s", "e", " ", "a",
       ":">>,
     <<"f", "u", "n", " ", "f", "(", ")", "{">>,
     <<"b", "r", "e", "a", "k", ";">>,
     <<"r", "e", "t", "u", "r", "n", ";">>,
     <<"}">>,
     <<"f", "u", "n", " ", "g", "(", ")", "{", "r", "e", "t", "u", "r", "n", ";", "}">>}

RECURSIVE Flatten(_)
\* the text made of the pieces in order
Flatten(pieces) == IF pieces = <<>> THEN <<>> ELSE Head(pieces) \o Flatten(Tail(pieces))

\* ---- what the parts of the program that are not running look like ----

OptimizerIdle ==
    /\ config = OptimizerConfig
    /\ passes = initialize_passes(OptimizerConfig)
    /\ ast = <<>>
    /\ optimized = <<>>
    /\ sweeps = <<>>

CompilerIdle ==
    /\ options = CompilationOptions
    /\ source = Source(TRUE, TRUE, <<>>)
    /\ phase = "start"
    /\ phase_log = <<>>
    /\ codegen_stmts = <<>>

FrontendIdle ==
    /\ source_code = <<>>
    /\ scan_result = <<>>
    /\ parse_result = <<>>

GraphIdle ==
    /\ dataflow_calls = <<>>
    /\ enumerated_paths = <<>>

-----------------------------------------------------------------------------
(* What a program does when it runs, for the statements the code generator *)
(* (codegen_error.cpp, builtin_functions.cpp) compiles to an allocation, a *)
(* call of free, a conditional branch or a loop: declarations with malloc  *)
(* or addr_of, free(v), print v, blocks, if and while.  generate_stmt is   *)
(* the generator's walk with its Environment of declared names: a program  *)
(* it rejects never runs.  run_stmt gives the machines a statement can     *)
(* leave: env binds a name to the allocation its variable holds, heap      *)
(* tells for each allocation whether it is live or freed.                  *)

MaxIterations == 2   \* iterations of a while loop that are followed

Executable(stmt) ==
    stmt.kind \in {"VarStmt", "ExprStmt", "PrintStmt", "Block", "IfStmt", "WhileStmt"}

RECURSIVE NoOtherStatement(_)
\* the program holds no switch, function or unsafe block
NoOtherStatement(stmts) ==
    \A i \in DOMAIN stmts :
        /\ Executable(stmts[i])
        /\ stmts[i].kind = "Block" => NoOtherStatement(stmts[i].statements)
        /\ stmts[i].kind = "WhileStmt" => NoOtherStatement(<<stmts[i].body>>)
        /\ stmts[i].kind = "IfStmt" =>
               /\ NoOtherStatement(<<stmts[i].then_branch>>)
               /\ stmts[i].has_else => NoOtherStatement(<<stmts[i].else_branch>>)

\* Environment::get
EnvGet(env, name) ==
    LET holders == {i \in DOMAIN env : name \in DOMAIN env[i]}
    IN  IF holders = {} THEN "undefined"
        ELSE env[CHOOSE i \in holders : \A j \in holders : j <= i][name]

\* the generator between two statements: its Environment chain, innermost
\* scope last, and whether it has thrown a CodeGenError
Generator(env, failed) == [env |-> env, failed |-> failed]

\* visit_expr of an initializer or a printed expression: its BoxType, or
\* "error" when the generator throws
TypeOf(env, expr) ==
    IF expr.kind = "Variable"
    THEN (IF EnvGet(env, expr.name.lexeme) = "undefined" THEN "error"
          ELSE EnvGet(env, expr.name.lexeme))
    ELSE IF expr.kind = "Call" /\ IsAllocCall(expr) THEN "pointer"
    ELSE IF expr.kind = "Call" /\ expr.callee.name.lexeme = "addr_of"
    THEN (IF EnvGet(env, expr.arguments[1].name.lexeme) = "number" THEN "pointer"
          ELSE "error")
    ELSE IF expr.kind = "Call" /\ expr.callee.name.lexeme = "free"
    THEN (IF EnvGet(env, expr.arguments[1].name.lexeme) = "pointer" THEN "nil"
          ELSE "error")
    ELSE IF expr.kind = "Literal" THEN expr.vt
    ELSE "error"

RECURSIVE generate_stmt(_, _)
RECURSIVE generate_stmts(_, _, _)

generate_stmts(g, stmts, i) ==
    IF i > Len(stmts) \/ g.failed THEN g
    ELSE generate_stmts(generate_stmt(g, stmts[i]), stmts, i + 1)

generate_stmt(g, stmt) ==
    LET Checked(type) ==
            IF type = "error" THEN Generator(g.env, TRUE) ELSE g
        Defined(type) ==
            IF type = "error" THEN Generator(g.env, TRUE)
            ELSE Generator([g.env EXCEPT ![Len(g.env)] =
                               MapPut(@, stmt.name.lexeme, type)], FALSE)
        Left(inner) == Generator(g.env, inner.failed)
    IN  IF g.failed THEN g
        ELSE CASE stmt.kind = "VarStmt" ->
                  IF stmt.name.lexeme \in DOMAIN Last(g.env) THEN Generator(g.env, TRUE)
                  ELSE Defined(IF stmt.has_init THEN TypeOf(g.env, stmt.initializer)
                               ELSE "nil")
               [] stmt.kind = "ExprStmt" -> Checked(TypeOf(g.env, stmt.expression))
               [] stmt.kind = "PrintStmt" -> Checked(TypeOf(g.env, stmt.expression))
               [] stmt.kind = "Block" ->
                  Left(generate_stmts(Generator(Append(g.env, EmptyMap), FALSE),
                                      stmt.statements, 1))
               [] stmt.kind = "IfStmt" ->
                  IF stmt.has_else
                  THEN generate_stmts(Checked(TypeOf(g.env, stmt.condition)),
                                      <<stmt.then_branch, stmt.else_branch>>, 1)
                  ELSE generate_stmt(Checked(TypeOf(g.env, stmt.condition)),
                                     stmt.then_branch)
               [] stmt.kind = "WhileStmt" ->
                  generate_stmt(Checked(TypeOf(g.env, stmt.condition)), stmt.body)
               [] OTHER -> Generator(g.env, TRUE)

\* the generator accepts the program
Generates(stmts) == ~generate_stmts(Generator(<<EmptyMap>>, FALSE), stmts, 1).failed

\* the running program between two statements; twice: some allocation was
\* passed to free a second time; forever: it is inside a loop it never leaves
Machine(env, heap, twice, forever) ==
    [env |-> env, heap |-> heap, twice |-> twice, forever |-> forever]

\* the values the branch on a condition can take
Outcomes(condition) ==
    IF condition.kind = "Literal" /\ condition.vt = "bool" THEN {condition.b}
    ELSE BOOLEAN

RECURSIVE run_stmt(_, _)
RECURSIVE run_stmts(_, _, _)
RECURSIVE run_loop(_, _, _)

\* the machines the statements stmts[i], stmts[i + 1], ... leave, started in
\* any machine of ms
run_stmts(ms, stmts, i) ==
    IF i > Len(stmts) THEN ms
    ELSE run_stmts(UNION {run_stmt(m, stmts[i]) : m \in ms}, stmts, i + 1)

\* the machines after n more passes through while_cond with a true
\* condition, for every n up to left
run_loop(ms, stmt, left) ==
    IF left = 0 THEN ms
    ELSE ms \cup run_loop(UNION {run_stmt(m, stmt.body) : m \in ms}, stmt, left - 1)

run_stmt(m, stmt) ==
    LET Freed(id) ==
            IF m.heap[id] = "freed" THEN {[m EXCEPT !.twice = TRUE]}
            ELSE {[m EXCEPT !.heap[id] = "freed"]}
        Leaves(inner) == {[n EXCEPT !.env = m.env] : n \in inner}
        Endless(ms) == {[n EXCEPT !.forever = TRUE] : n \in ms}
    IN  IF m.forever THEN {m}
        ELSE CASE stmt.kind = "VarStmt" /\ stmt.has_init /\ IsAllocCall(stmt.initializer) ->
                  {[m EXCEPT !.heap = Append(@, "live"),
                             !.env[Len(m.env)] =
                                 MapPut(@, stmt.name.lexeme, Len(m.heap) + 1)]}
               [] stmt.kind = "VarStmt" /\ ~(stmt.has_init /\ IsAllocCall(stmt.initializer)) ->
                  {[m EXCEPT !.env[Len(m.env)] = MapPut(@, stmt.name.lexeme, 0)]}
               [] stmt.kind = "ExprStmt" ->
                  Freed(EnvGet(m.env, stmt.expression.arguments[1].name.lexeme))
               [] stmt.kind = "Block" ->
                  Leaves(run_stmts({[m EXCEPT !.env = Append(@, EmptyMap)]},
                                   stmt.statements, 1))
               [] stmt.kind = "IfStmt" ->
                  UNION {IF taken THEN run_stmt(m, stmt.then_branch)
                         ELSE IF stmt.has_else THEN run_stmt(m, stmt.else_branch)
                         ELSE {m} : taken \in Outcomes(stmt.condition)}
               [] stmt.kind = "WhileStmt" ->
                  IF Outcomes(stmt.condition) = {TRUE}
                  THEN Endless(run_loop(run_stmt(m, stmt.body), stmt, MaxIterations - 1))
                  ELSE IF Outcomes(stmt.condition) = {FALSE} THEN {m}
                  ELSE run_loop({m}, stmt, MaxIterations)
               [] OTHER -> {m}

\* the machines the program can end in, or be in inside a loop it never
\* leaves
Executions(stmts) == run_stmts({Machine(<<EmptyMap>>, <<>>, FALSE, FALSE)}, stmts, 1)

-----------------------------------------------------------------------------
(* The analyzer as a state machine: its caller constructs analyzers and    *)
(* calls analyze on the statements it parsed.                              *)

\* the analyzer object as the record the walk threads
Object ==
    [allocations |-> allocations, pointers |-> pointers,
     current_scope_vars |-> current_scope_vars, freed_in_scope |-> freed_in_scope,
     errors |-> errors, warnings |-> warnings, strict_mode |-> strict_mode,
     next_cfg_node_id |-> next_cfg_node_id, cfg_nodes |-> cfg_nodes,
     order |-> hash_order, thrown |-> FALSE, exc |-> Null, free_log |-> <<>>,
     result |-> FALSE]

\* MemorySafetyAnalyzer::MemorySafetyAnalyzer()
Constructed ==
    /\ allocations = EmptyMap
    /\ pointers = EmptyMap
    /\ current_scope_vars = <<{}>>
    /\ freed_in_scope = <<{}>>
    /\ errors = <<>>
    /\ warnings = <<>>
    /\ strict_mode = TRUE
    /\ next_cfg_node_id = 0
    /\ cfg_nodes = <<>>

InitAnalyzer ==
    /\ Constructed
    /\ statements \in Programs
    /\ hash_order \in Permutations3(Names)
    /\ runs = <<>>
    /\ OptimizerIdle
    /\ CompilerIdle
    /\ FrontendIdle
    /\ GraphIdle

\* analyze returns: r is the object as the call leaves it
Returns(r, fresh) ==
    /\ allocations' = r.allocations
    /\ pointers' = r.pointers
    /\ current_scope_vars' = r.current_scope_vars
    /\ freed_in_scope' = r.freed_in_scope
    /\ errors' = r.errors
    /\ warnings' = r.warnings
    /\ strict_mode' = r.strict_mode
    /\ next_cfg_node_id' = r.next_cfg_node_id
    /\ cfg_nodes' = r.cfg_nodes
    /\ runs' = Append(runs,
           [result |-> r.result, errors |-> r.errors, warnings |-> r.warnings,
            free_log |-> r.free_log, allocations |-> r.allocations,
            fresh |-> fresh])

\* bool result = analyzer.analyze(statements);
Analyze ==
    /\ Len(runs) < MaxCalls
    /\ Returns(analyze(Object, statements), Constructed)
    /\ UNCHANGED <<graph_vars, statements, hash_order, optimizer_vars, compiler_vars, frontend_vars>>

\* MemorySafetyAnalyzer analyzer;  (a second analyzer for the same statements)
NewAnalyzer ==
    /\ runs # <<>>
    /\ Len(runs) < MaxCalls
    /\ ~Constructed
    /\ allocations' = EmptyMap
    /\ pointers' = EmptyMap
    /\ current_scope_vars' = <<{}>>
    /\ freed_in_scope' = <<{}>>
    /\ errors' = <<>>
    /\ warnings' = <<>>
    /\ strict_mode' = TRUE
    /\ next_cfg_node_id' = 0
    /\ cfg_nodes' = <<>>
    /\ UNCHANGED <<graph_vars, statements, hash_order, runs, optimizer_vars, compiler_vars,
                   frontend_vars>>

NextAnalyzer == Analyze \/ NewAnalyzer

SpecAnalyzer == InitAnalyzer /\ [][NextAnalyzer]_vars

-----------------------------------------------------------------------------
(* The optimizer as a state machine: its caller constructs an Optimizer    *)
(* for a configuration and calls optimize, first on the AST it parsed and  *)
(* then on what optimize returned.                                         *)

MaxOptimize == 2    \* optimize calls made by the caller

\* Optimizer optimizer(config);
InitOptimizer ==
    /\ Constructed
    /\ statements = <<>>
    /\ hash_order = <<"x", "y">>
    /\ runs = <<>>
    /\ config \in OptimizerConfigs
    /\ passes = initialize_passes(config)
    /\ ast \in OptPrograms
    /\ optimized = <<>>
    /\ sweeps = <<>>
    /\ CompilerIdle
    /\ FrontendIdle
    /\ GraphIdle

\* current = optimizer.optimize(current);
Optimize ==
    LET Returned(w) ==
            /\ sweeps' = w.iterations
            /\ optimized' = Append(optimized, w.current)
    IN  /\ Len(optimized) < MaxOptimize
        /\ Returned(optimize_iterations(passes, config,
                                        IF optimized = <<>> THEN ast ELSE Last(optimized)))
        /\ UNCHANGED <<graph_vars, analyzer_vars, config, passes, ast, compiler_vars, frontend_vars>>

NextOptimizer == Optimize

SpecOptimizer == InitOptimizer /\ [][NextOptimizer]_vars

-----------------------------------------------------------------------------
(* The compilation driver (compiler.cpp, BoxCompiler::compile) as a state  *)
(* machine.  phase is the last phase that finished; phase_log records, for *)
(* every phase that ran, the statements it read and the statements it      *)
(* produced.                                                               *)

\* a driver that generates code before it analyzes
PhaseAfterGenerateFirst(p) ==
    CASE p = "start" -> "lex"
      [] p = "lex" -> "parse"
      [] p = "parse" -> "generate"
      [] p = "generate" -> "analyze"
      [] OTHER -> "none"

\* the phase compile runs after phase p
PhaseAfter(p) ==
    CASE p = "start" -> "lex"
      [] p = "lex" -> "parse"
      [] p = "parse" -> "analyze"
      [] p = "analyze" -> "generate"
      [] OTHER -> "none"

PhaseRun(name, ok, input, output) ==
    [phase |-> name, ok |-> ok, input |-> input, output |-> output]

InitCompiler ==
    /\ Constructed
    /\ statements = <<>>
    /\ hash_order \in Permutations3(Names)
    /\ runs = <<>>
    /\ OptimizerIdle
    /\ options \in [optimize : BOOLEAN]
    /\ source \in Sources
    /\ phase = "start"
    /\ phase_log = <<>>
    /\ codegen_stmts = <<>>
    /\ FrontendIdle
    /\ GraphIdle

\* process_imports: Lexer lexer(source_code); tokens = lexer.scan_tokens();
LexSource ==
    /\ PhaseAfter(phase) = "lex"
    /\ phase' = IF source.lexes THEN "lex" ELSE "failed"
    /\ phase_log' = Append(phase_log, PhaseRun("lex", source.lexes, <<>>, <<>>))
    /\ UNCHANGED <<graph_vars, analyzer_vars, optimizer_vars, options, source, codegen_stmts,
                   frontend_vars>>

\* process_imports: Parser parser(tokens, source_code); statements = parser.parse();
ParseTokens ==
    /\ PhaseAfter(phase) = "parse"
    /\ phase' = IF source.parses THEN "parse" ELSE "failed"
    /\ statements' = IF source.parses THEN source.ast ELSE statements
    /\ phase_log' = Append(phase_log, PhaseRun("parse", source.parses, <<>>, statements'))
    /\ UNCHANGED <<graph_vars, allocations, pointers, current_scope_vars, freed_in_scope, errors,
                   warnings, strict_mode, next_cfg_node_id, cfg_nodes, hash_order, runs,
                   optimizer_vars, options, source, codegen_stmts, frontend_vars>>

\* MemorySafetyAnalyzer analyzer; bool memory_safe = analyzer.analyze(statements);
AnalyzeMemorySafety ==
    LET MemorySafe(r) ==
            /\ Returns(r, TRUE)
            /\ phase' = IF r.result THEN "analyze" ELSE "failed"
            /\ phase_log' = Append(phase_log, PhaseRun("analyze", r.result, statements, statements))
    IN  /\ PhaseAfter(phase) = "analyze"
        /\ MemorySafe(analyze(Object, statements))
        /\ UNCHANGED <<graph_vars, statements, hash_order, optimizer_vars, options, source,
                       codegen_stmts, frontend_vars>>

\* CodeGenerator codegen(options.optimize, ...); llvm_ir = codegen.generate(statements);
\* generate: if (optimizer) stmts = optimizer->optimize(stmts);
GenerateCode ==
    /\ PhaseAfter(phase) = "generate"
    /\ codegen_stmts' =
           IF options.optimize
           THEN optimize(initialize_passes(OptimizerConfig), OptimizerConfig, statements)
           ELSE statements
    /\ phase' = "generate"
    /\ phase_log' = phase_log
           \o (IF options.optimize
               THEN <<PhaseRun("optimize", TRUE, statements, codegen_stmts')>> ELSE <<>>)
           \o <<PhaseRun("generate", TRUE, codegen_stmts', codegen_stmts')>>
    /\ UNCHANGED <<graph_vars, analyzer_vars, optimizer_vars, options, source, frontend_vars>>

NextCompiler == LexSource \/ ParseTokens \/ AnalyzeMemorySafety \/ GenerateCode

SpecCompiler == InitCompiler /\ [][NextCompiler]_vars

-----------------------------------------------------------------------------
(* The lexer and the parser as a state machine: their caller constructs a  *)
(* Lexer for a source text and calls scan_tokens, then constructs a Parser *)
(* for the tokens and the same text and calls parse.                       *)

NothingElseRuns ==
    /\ Constructed
    /\ statements = <<>>
    /\ hash_order = <<"x", "y">>
    /\ runs = <<>>
    /\ OptimizerIdle
    /\ CompilerIdle
    /\ GraphIdle

\* Lexer lexer(source);
InitLexer ==
    /\ NothingElseRuns
    /\ source_code \in LexSources
    /\ scan_result = <<>>
    /\ parse_result = <<>>

InitParser ==
    /\ NothingElseRuns
    /\ source_code \in ParseSources
    /\ scan_result = <<>>
    /\ parse_result = <<>>

\* std::vector<Token> tokens = lexer.scan_tokens();
ScanTokens ==
    /\ scan_result = <<>>
    /\ scan_result' = <<scan_tokens(source_code)>>
    /\ UNCHANGED <<graph_vars, analyzer_vars, optimizer_vars, compiler_vars, source_code, parse_result>>

\* Parser parser(tokens, source); statements = parser.parse();
Parse ==
    /\ scan_result # <<>>
    /\ ~scan_result[1].thrown
    /\ parse_result = <<>>
    /\ parse_result' = <<parse(source_code, scan_result[1].tokens)>>
    /\ UNCHANGED <<graph_vars, analyzer_vars, optimizer_vars, compiler_vars, source_code, scan_result>>

InitRecovery ==
    /\ NothingElseRuns
    /\ \E n \in 0..MaxDeclarations :
           \E pieces \in [1..n -> RecoveryPieces] : source_code = Flatten(pieces)
    /\ scan_result = <<>>
    /\ parse_result = <<>>

InitNesting ==
    /\ NothingElseRuns
    /\ \E n \in 0..MaxNesting :
           \E pieces \in [1..n -> NestingPieces] : source_code = Flatten(pieces)
    /\ scan_result = <<>>
    /\ parse_result = <<>>

NextLexer == ScanTokens

SpecLexer == InitLexer /\ [][NextLexer]_vars

NextParser == ScanTokens \/ Parse

SpecParser == InitParser /\ [][NextParser]_vars

NextRecovery == ScanTokens \/ Parse

SpecRecovery == InitRecovery /\ [][NextRecovery]_vars

NextNesting == ScanTokens \/ Parse

SpecNesting == InitNesting /\ [][NextNesting]_vars

-----------------------------------------------------------------------------
(* The dataflow methods as functions of a CFG.  analyze applies them to    *)
(* the graphs build_cfg makes; here their caller hands them graphs of its  *)
(* own, made with create_cfg_node and connect_cfg_nodes, whose maps it has *)
(* filled in.                                                              *)

MaxPredecessors == 3 \* predecessors of the node the maps are joined at
MaxGraphNodes == 3   \* nodes of a graph whose paths are enumerated
MaxArms == 4         \* statements a node of a graph leads to
MaxRungs == 7        \* rungs of such statements in sequence

\* an analyzer whose only work so far was to build the graph nodes
Built(nodes) ==
    /\ allocations = EmptyMap
    /\ pointers = EmptyMap
    /\ current_scope_vars = <<{}>>
    /\ freed_in_scope = <<{}>>
    /\ errors = <<>>
    /\ warnings = <<>>
    /\ strict_mode = TRUE
    /\ next_cfg_node_id = Len(nodes)
    /\ cfg_nodes = nodes
    /\ statements = <<>>
    /\ hash_order = <<"x", "y">>
    /\ runs = <<>>
    /\ OptimizerIdle
    /\ CompilerIdle
    /\ FrontendIdle
    /\ GraphIdle

\* the allocation maps a node can hold for the names x and y
OutMaps ==
    UNION {[S -> {"ALLOCATED", "FREED"}] : S \in SUBSET Names}

\* the map with the records of the states in m
Records(m) ==
    [v \in DOMAIN m |-> AllocationInfo(v, Tok(v, FirstLine, 4), m[v], FALSE)]

\* the orders in which n predecessors can have been connected
Orders(n) == {o \in [1..n -> 0..(n - 1)] : \A i, j \in 1..n : o[i] = o[j] => i = j}

\* n statement nodes with the maps outs, each connected to a Merge node
\* (node n), in the order given
JoinGraph(n, outs, order) ==
    [i \in 1..(n + 1) |->
        IF i <= n
        THEN [ControlFlowNode("STATEMENT", i - 1) EXCEPT
                  !.allocations_out = Records(outs[i]), !.successors = <<n>>]
        ELSE [ControlFlowNode("MERGE", n) EXCEPT !.predecessors = order]]

InitJoin ==
    \E n \in 2..MaxPredecessors :
        \E outs \in [1..n -> OutMaps] :
            \E order \in Orders(n) : Built(JoinGraph(n, outs, order))

\* propagate_allocations(node), for the node with several predecessors
PropagateAllocations ==
    /\ dataflow_calls = <<>>
    /\ \E node \in 0..(Len(cfg_nodes) - 1) :
           /\ Len(cfg_nodes[node + 1].predecessors) > 1
           /\ cfg_nodes' = propagate_allocations(Object, node).cfg_nodes
           /\ dataflow_calls' = <<node>>
    /\ UNCHANGED <<allocations, pointers, current_scope_vars, freed_in_scope, errors,
                   warnings, strict_mode, next_cfg_node_id, statements, hash_order, runs,
                   optimizer_vars, compiler_vars, frontend_vars, enumerated_paths>>

NextJoin == PropagateAllocations

SpecJoin == InitJoin /\ [][NextJoin]_vars

\* the node ids 0 .. n - 1 in increasing order
Ids(n) == [i \in 1..n |-> i - 1]

\* the graph of MaxGraphNodes nodes in which node i has the successors
\* succ[i + 1], connected in the order of their ids; the caller takes node 0
\* for the entry and node 1 for the exit, the order in which build_cfg creates
\* them
DrawnGraph(succ) ==
    [i \in 1..MaxGraphNodes |->
        [ControlFlowNode(IF i = 1 THEN "ENTRY" ELSE IF i = 2 THEN "EXIT" ELSE "STATEMENT",
                         i - 1) EXCEPT
            !.successors = InOrder(Ids(MaxGraphNodes), succ[i]),
            !.predecessors = InOrder(Ids(MaxGraphNodes),
                                     {j \in 0..(MaxGraphNodes - 1) : (i - 1) \in succ[j + 1]})]]

\* the arms of a rung whose first arm is node f
Arms(f) == [i \in 1..MaxArms |-> f + i - 1]

\* the first arm of the rung after the rung of arm n
NextRung(n) == n + MaxArms - ((n - 2) % MaxArms)

\* the successors of node n in the ladder of k rungs: Entry (node 0) leads to
\* the arms of the first rung, every arm of a rung to the arms of the next,
\* every arm of the last rung to Exit (node 1); the first arm of a rung also
\* leads back to Entry
RungSuccessors(k, n) ==
    IF n = 1 THEN <<>>
    ELSE IF n = 0 THEN (IF k = 0 THEN <<1>> ELSE Arms(2))
    ELSE (IF NextRung(n) = n + MaxArms THEN <<0>> ELSE <<>>)
         \o (IF NextRung(n) < 2 + k * MaxArms THEN Arms(NextRung(n)) ELSE <<1>>)

\* Entry, Exit and k rungs of MaxArms Statement nodes each: a cyclic graph
\* with MaxArms^k paths from Entry to Exit that repeat no node
Ladder(k) ==
    [i \in 1..(2 + k * MaxArms) |->
        [ControlFlowNode(IF i = 1 THEN "ENTRY" ELSE IF i = 2 THEN "EXIT" ELSE "STATEMENT",
                         i - 1) EXCEPT
            !.successors = RungSuccessors(k, i - 1),
            !.predecessors = InOrder(Ids(2 + k * MaxArms),
                                     {j \in 0..(1 + k * MaxArms) :
                                         (i - 1) \in Range(RungSuccessors(k, j))})]]

InitPaths ==
    \/ \E succ \in [1..MaxGraphNodes -> SUBSET (0..(MaxGraphNodes - 1))] :
           Built(DrawnGraph(succ))
    \/ \E k \in 0..MaxRungs : Built(Ladder(k))

\* paths = enumerate_all_paths(entry, exit);
EnumerateAllPaths ==
    /\ enumerated_paths = <<>>
    /\ enumerated_paths' = <<enumerate_all_paths(Object, 0, 1)>>
    /\ UNCHANGED <<analyzer_vars, optimizer_vars, compiler_vars, frontend_vars,
                   dataflow_calls>>

NextPaths == EnumerateAllPaths

SpecPaths == InitPaths /\ [][NextPaths]_vars

-----------------------------------------------------------------------------
(* Properties of the analyzer.  runs[1] is the first analyze call, made on *)
(* a newly constructed analyzer.                                           *)

IsAllocOf(s, v) ==
    /\ s.kind = "VarStmt"
    /\ s.has_init
    /\ IsAllocCall(s.initializer)
    /\ s.name.lexeme = v

IsFreeOf(s, v) ==
    /\ s.kind = "ExprStmt"
    /\ s.expression.kind = "Call"
    /\ s.expression.callee.kind = "Variable"
    /\ s.expression.callee.name.lexeme = "free"
    /\ Len(s.expression.arguments) = 1
    /\ s.expression.arguments[1].kind = "Variable"
    /\ s.expression.arguments[1].name.lexeme = v

IsAlloc(s) == \E v \in Names : IsAllocOf(s, v)
IsFree(s) == \E v \in Names : IsFreeOf(s, v)

\* the statement lists directly inside a statement
Inner(s) ==
    CASE s.kind \in {"Block", "UnsafeBlock"} -> <<s.statements>>
      [] s.kind = "FunctionStmt" -> <<s.body>>
      [] s.kind = "WhileStmt" -> <<<<s.body>>>>
      [] s.kind = "IfStmt" ->
            <<<<s.then_branch>>>> \o (IF s.has_else THEN <<<<s.else_branch>>>> ELSE <<>>)
      [] s.kind = "SwitchStmt" ->
            [i \in 1..Len(s.cases) |-> s.cases[i].statements]
                \o (IF s.has_default THEN <<s.default_case>> ELSE <<>>)
      [] OTHER -> <<>>

RECURSIVE AllStmts(_)
RECURSIVE AllStmtsOfLists(_)
\* every statement of the list, at any depth, in source order
AllStmts(stmts) ==
    IF stmts = <<>> THEN <<>>
    ELSE <<Head(stmts)>> \o AllStmtsOfLists(Inner(Head(stmts))) \o AllStmts(Tail(stmts))
AllStmtsOfLists(lists) ==
    IF lists = <<>> THEN <<>> ELSE AllStmts(Head(lists)) \o AllStmtsOfLists(Tail(lists))

HasKind(stmts, k) == \E i \in DOMAIN AllStmts(stmts) : AllStmts(stmts)[i].kind = k

\* the run reported something about v
Reported(r, v) ==
    \/ \E i \in DOMAIN r.errors : r.errors[i].var = v
    \/ \E i \in DOMAIN r.warnings : r.warnings[i].var = v

\* var v = malloc(..); if (..) { free(v); }   and nothing after it
FreedInThenOnly(v) ==
    /\ Len(statements) = 2
    /\ IsAllocOf(statements[1], v)
    /\ statements[2].kind = "IfStmt"
    /\ ~statements[2].has_else
    /\ statements[2].then_branch.kind = "Block"
    /\ Len(statements[2].then_branch.statements) = 1
    /\ IsFreeOf(statements[2].then_branch.statements[1], v)

\* C2: after "var x = malloc(..); if (..) { free(x); }" the allocation x is
\* Allocated again, and analyze reports a MEMORY LEAK of x and returns false.
C2_FreedInThenOnlyLeaks ==
    \A v \in Names :
        (FreedInThenOnly(v) /\ runs # <<>>) =>
            /\ runs[1].allocations[v].state = "ALLOCATED"
            /\ runs[1].result = FALSE
            /\ runs[1].errors # <<>>
            /\ runs[1].errors[1].error_type = "MEMORY LEAK"
            /\ runs[1].errors[1].var = v

NoFreeNoAlloc(stmts) == \A i \in DOMAIN stmts : ~IsFree(stmts[i]) /\ ~IsAlloc(stmts[i])

\* var v = malloc(..); if (..) { A } else { B }   where one of A, B is
\* free(v); and the other neither frees nor allocates
FreedInOneBranch(v) ==
    /\ Len(statements) = 2
    /\ IsAllocOf(statements[1], v)
    /\ statements[2].kind = "IfStmt"
    /\ statements[2].has_else
    /\ statements[2].then_branch.kind = "Block"
    /\ statements[2].else_branch.kind = "Block"
    /\ LET A == statements[2].then_branch.statements
           B == statements[2].else_branch.statements
       IN  \/ Len(A) = 1 /\ IsFreeOf(A[1], v) /\ NoFreeNoAlloc(B)
           \/ Len(B) = 1 /\ IsFreeOf(B[1], v) /\ NoFreeNoAlloc(A)

\* C3: after an if/else of which exactly one branch, either one, frees the
\* Allocated x, the allocation x is Allocated, not Freed.
C3_FreedInOneBranchStaysAllocated ==
    \A v \in Names :
        (FreedInOneBranch(v) /\ runs # <<>>) =>
            runs[1].allocations[v].state = "ALLOCATED"

RECURSIVE FreesInNestedThen(_, _)
\* s is if (..) { if (..) { ... free(v); ... } }: else-less ifs around the
\* single statement free(v)
FreesInNestedThen(s, v) ==
    /\ s.kind = "IfStmt"
    /\ ~s.has_else
    /\ s.then_branch.kind = "Block"
    /\ Len(s.then_branch.statements) = 1
    /\ \/ IsFreeOf(s.then_branch.statements[1], v)
       \/ FreesInNestedThen(s.then_branch.statements[1], v)

RECURSIVE IfDepth(_)
IfDepth(s) ==
    IF s.kind = "IfStmt" /\ s.then_branch.kind = "Block" /\ Len(s.then_branch.statements) = 1
    THEN 1 + IfDepth(s.then_branch.statements[1]) ELSE 0

OnlyFreeInNestedThen(v) ==
    /\ Len(statements) = 2
    /\ IsAllocOf(statements[1], v)
    /\ FreesInNestedThen(statements[2], v)

\* C4: a program whose only free of x sits in the then-branch of else-less
\* ifs, nested to any depth, is safe: analyze returns true and reports
\* nothing about x.
C4_FreeInNestedThenIsSafe ==
    \A v \in Names :
        (OnlyFreeInNestedThen(v) /\ runs # <<>>) =>
            /\ runs[1].result = TRUE
            /\ runs[1].errors = <<>>
            /\ ~Reported(runs[1], v)

C4_Witness ==
    /\ OnlyFreeInNestedThen("x")
    /\ IfDepth(statements[2]) = MaxNest
    /\ runs # <<>>
    /\ runs[1].result = TRUE
    /\ runs[1].allocations["x"].state = "FREED"

RECURSIVE BalancedFrom(_, _, _)
RECURSIVE AllBalanced(_)
\* Every allocation in stmts[i..] is made while its name holds no live
\* allocation of this list and is freed later in this same list, every free
\* and every print is of an allocation of this list that is live, the nested
\* statement lists are balanced in the same way, and no unsafe block occurs.
\* live is the set of allocations of this list not yet freed.
BalancedFrom(stmts, i, live) ==
    IF i > Len(stmts) THEN live = {}
    ELSE LET s == stmts[i]
         IN  IF IsAlloc(s)
             THEN s.name.lexeme \notin live
                  /\ BalancedFrom(stmts, i + 1, live \cup {s.name.lexeme})
             ELSE IF IsFree(s)
             THEN s.expression.arguments[1].name.lexeme \in live
                  /\ BalancedFrom(stmts, i + 1,
                                  live \ {s.expression.arguments[1].name.lexeme})
             ELSE IF s.kind = "PrintStmt"
             THEN s.expression.kind = "Variable"
                  /\ s.expression.name.lexeme \in live
                  /\ BalancedFrom(stmts, i + 1, live)
             ELSE IF s.kind \in {"Block", "WhileStmt", "IfStmt", "FunctionStmt", "SwitchStmt"}
             THEN AllBalanced(Inner(s)) /\ BalancedFrom(stmts, i + 1, live)
             ELSE FALSE
AllBalanced(lists) ==
    lists = <<>> \/ (BalancedFrom(Head(lists), 1, {}) /\ AllBalanced(Tail(lists)))

FreedWhereAllocated == BalancedFrom(statements, 1, {})

\* C5: a program that frees each allocation in the scope that allocated it
\* gets no error from the strict analyzer, and analyze returns true.
C5_FreedWhereAllocatedIsSafe ==
    (FreedWhereAllocated /\ runs # <<>>) =>
        /\ runs[1].result = TRUE
        /\ runs[1].errors = <<>>

\* C6: any two analyze calls on the same statements, on the same analyzer or
\* on a new one, return the same verdict, the same errors and the same
\* warnings in the same order.
C6_AnalyzeIsRepeatable ==
    \A i, j \in DOMAIN runs :
        /\ runs[i].result = runs[j].result
        /\ runs[i].errors = runs[j].errors
        /\ runs[i].warnings = runs[j].warnings

Allocs == SelectSeq(AllStmts(statements), IsAlloc)
Frees == SelectSeq(AllStmts(statements), IsFree)

\* C7: a program with exactly one malloc, never freed, gets exactly one
\* error, a MEMORY LEAK positioned at the declaration that holds the malloc,
\* wherever the declaration stands.
C7_SingleLeakReportedOnce ==
    (Len(Allocs) = 1 /\ Frees = <<>> /\ runs # <<>>) =>
        /\ Len(runs[1].errors) = 1
        /\ runs[1].errors[1].error_type = "MEMORY LEAK"
        /\ runs[1].errors[1].token = Allocs[1].name

\* the lines of the frees that run k and the runs before it logged for v
\* before entry n of run k's log
EarlierFreeLines(k, n, v) ==
    {runs[k].free_log[m].token.line :
        m \in {m \in 1..(n - 1) : runs[k].free_log[m].var = v}}
    \cup UNION {{runs[j].free_log[m].token.line :
                    m \in {m \in DOMAIN runs[j].free_log : runs[j].free_log[m].var = v}} :
                j \in 1..(k - 1)}

\* C8: when free(x) meets an allocation x that is already Freed, analyze
\* returns false and its first error is a DOUBLE-FREE at the argument token
\* of that free, with a hint that names the line of an earlier free of x.
C8_DoubleFreeReported ==
    \A k \in DOMAIN runs : \A n \in DOMAIN runs[k].free_log :
        runs[k].free_log[n].state = "FREED" =>
            /\ runs[k].result = FALSE
            /\ runs[k].errors # <<>>
            /\ runs[k].errors[1].error_type = "DOUBLE-FREE"
            /\ runs[k].errors[1].var = runs[k].free_log[n].var
            /\ runs[k].errors[1].token = runs[k].free_log[n].token
            /\ runs[k].errors[1].has_hint
            /\ runs[k].errors[1].hint = "Previously freed at line"
            /\ runs[k].errors[1].hint_line
                   \in EarlierFreeLines(k, n, runs[k].free_log[n].var)

\* a double free inside nested statements, found on a new analyzer
C8_Witness ==
    /\ runs # <<>>
    /\ runs[1].free_log # <<>>
    /\ Last(runs[1].free_log).state = "FREED"
    /\ Last(runs[1].free_log).token.line > FirstLine + 1
    /\ runs[1].errors[1].error_type = "DOUBLE-FREE"
    /\ HasKind(statements, "IfStmt")

\* unsafe { ... }  alone, or after the allocation that its first statement
\* frees: whatever the analyzer finds, it finds inside the unsafe block
FindingsOnlyInUnsafe ==
    \/ /\ Len(statements) = 1
       /\ statements[1].kind = "UnsafeBlock"
    \/ /\ Len(statements) = 2
       /\ statements[2].kind = "UnsafeBlock"
       /\ statements[2].statements # <<>>
       /\ \E v \in Names :
            IsAllocOf(statements[1], v) /\ IsFreeOf(statements[2].statements[1], v)

\* C9: what the analyzer finds inside an unsafe block (leak, double free,
\* invalid free, use after free) becomes a warning and does not make analyze
\* return false.
C9_UnsafeFindingsAreWarnings ==
    (FindingsOnlyInUnsafe /\ runs # <<>>) =>
        /\ runs[1].result = TRUE
        /\ runs[1].errors = <<>>

\* C23: strict_mode has the same value after the analysis of an unsafe
\* block ends as it had when the block was entered, on every way of leaving
\* the block (a hard error raised inside it included), so that every analyze
\* call leaves the analyzer in strict mode.
C23_StrictModeRestored == runs # <<>> => strict_mode = TRUE

RECURSIVE ReachableFrom(_, _)
\* the ids of the nodes that the successor edges reach from the ids in seen
ReachableFrom(nodes, seen) ==
    LET next == seen \cup UNION {{nodes[n + 1].successors[k] :
                                     k \in DOMAIN nodes[n + 1].successors} : n \in seen}
    IN  IF next = seen THEN seen ELSE ReachableFrom(nodes, next)

\* the Entry nodes: build_cfg made each for an analyze call, which then ran
\* perform_dataflow_analysis from it
EntryNodes == {n \in 0..(Len(cfg_nodes) - 1) : cfg_nodes[n + 1].type = "ENTRY"}

\* the nodes the dataflow analysis had to cover
ReachableNodes == UNION {ReachableFrom(cfg_nodes, {e}) : e \in EntryNodes}

\* the statement of node n declares a variable with malloc, calloc or realloc
DeclaresAllocation(n) ==
    /\ cfg_nodes[n + 1].statement.kind = "VarStmt"
    /\ cfg_nodes[n + 1].statement.has_init
    /\ IsAllocCall(cfg_nodes[n + 1].statement.initializer)

\* the maps of node n satisfy the transfer equations
FixedPointAt(n) ==
    AllocationsEq(propagate_allocations(Object, n).cfg_nodes[n + 1].allocations_out,
                  cfg_nodes[n + 1].allocations_out)

\* C24: the worklist seeded with the entry node terminates, and then the
\* maps are a fixed point of the transfer equations at every node reachable
\* from Entry: out_map is the transfer function applied to the join of the
\* predecessors' out_maps, so out_map[x] is Allocated at every reachable
\* node whose statement declares x with malloc, calloc or realloc.
C24_WorklistReachesFixedPoint ==
    \A n \in ReachableNodes :
        /\ FixedPointAt(n)
        /\ DeclaresAllocation(n) =>
               /\ cfg_nodes[n + 1].statement.name.lexeme
                      \in DOMAIN cfg_nodes[n + 1].allocations_out
               /\ cfg_nodes[n + 1].allocations_out[
                      cfg_nodes[n + 1].statement.name.lexeme].state = "ALLOCATED"

\* the nodes build_cfg_stmt created for if statements, and the Merge node it
\* creates right after each of them
BranchNodes == {n \in 0..(Len(cfg_nodes) - 1) : cfg_nodes[n + 1].type = "BRANCH"}

MergeOf(n) == cfg_nodes[n + 2]

\* C26: for every if statement the CFG holds a Branch node with exactly two
\* successors (the entry of the then-arm, and the entry of the else-arm or the
\* Merge node), and a Merge node that the arms lead to and from which control
\* continues to what follows the if.
C26_BranchHasTwoSuccessors ==
    \A n \in BranchNodes :
        /\ Len(cfg_nodes[n + 1].successors) = 2
        /\ MergeOf(n).type = "MERGE"
        /\ MergeOf(n).predecessors # <<>>
        /\ MergeOf(n).successors # <<>>

\* the node propagate_allocations was called for, and the maps it joins
JoinedNode == cfg_nodes[dataflow_calls[1] + 1]

PredecessorOuts == {cfg_nodes[p + 1].allocations_out : p \in Range(JoinedNode.predecessors)}

\* the lattice join of the states of key in the maps that hold it
JoinOfStates(outs, key) ==
    IF \A o \in outs : key \in DOMAIN o => o[key].state = "FREED"
    THEN "FREED" ELSE "ALLOCATED"

RECURSIVE ReachableIn(_, _, _)
ReachableIn(from, steps, seen) ==
    IF steps = 0 THEN seen
    ELSE ReachableIn(from, steps - 1,
             seen \cup UNION {Range(cfg_nodes[n + 1].successors) : n \in seen \cup {from}})

OnCycle(n) == n \in ReachableIn(n, Len(cfg_nodes), {})

RepeatsNoNode(path) == Cardinality(Range(path.nodes)) = Len(path.nodes)

RanSafely(m) ==
    /\ ~m.twice
    /\ ~m.forever => \A id \in DOMAIN m.heap : m.heap[id] = "freed"

\* C28: when analyze returns true for a program without unsafe block, no
\* execution of the program, whatever its conditions evaluate to and however
\* often its loops iterate, frees the same allocation twice or finishes with
\* an allocation that was never freed.  (Checked for the programs made of
\* declarations, free, print, blocks, if and while that the code generator
\* accepts.)
C28_AcceptedProgramsRunSafely ==
    (/\ runs # <<>>
     /\ runs[1].result = TRUE
     /\ NoOtherStatement(statements)
     /\ Generates(statements))
    => \A m \in Executions(statements) : RanSafely(m)

\* the pointer records that addr_of created
AddrOfPointers == {p \in DOMAIN pointers : pointers[p].has_points_to}

\* C29: a pointer record created by addr_of(x) is in state Dangling only
\* while the allocation record of x is in state Freed, also after the
\* allocation map was restored from a snapshot at an if/else or a switch
\* case, and after x was allocated again.
C29_DanglingOnlyWhileFreed ==
    \A p \in AddrOfPointers :
        pointers[p].state = "DANGLING" =>
            /\ pointers[p].points_to \in DOMAIN allocations
            /\ allocations[pointers[p].points_to].state = "FREED"

-----------------------------------------------------------------------------
(* Properties of the optimizer.  optimized[1] is optimize(A) and           *)
(* optimized[2] is optimize(optimize(A)); a node carries no position but   *)
(* the token of a declared name, which no pass rewrites, so equality of    *)
(* two ASTs is their structural equality.                                  *)

\* C1: for every AST A and every optimizer configuration,
\* optimize(optimize(A)) is structurally equal to optimize(A): running the
\* pass pipeline a second time on its own output changes nothing.
C1_OptimizeIsIdempotent ==
    Len(optimized) >= 2 => optimized[2] = optimized[1]

\* the expression kinds whose evaluation does not depend on a value computed
\* at run time: no short-circuit operator inside
RECURSIVE Unconditional(_)
Unconditional(e) ==
    CASE e.kind \in {"Literal", "Variable"} -> TRUE
      [] e.kind = "Binary" -> Unconditional(e.left) /\ Unconditional(e.right)
      [] e.kind = "Unary" -> Unconditional(e.right)
      [] e.kind = "Grouping" -> Unconditional(e.expression)
      [] e.kind = "Assign" -> Unconditional(e.value)
      [] e.kind = "Call" -> \A i \in DOMAIN e.arguments : Unconditional(e.arguments[i])
      [] OTHER -> FALSE

RECURSIVE visit_expr(_)
RECURSIVE visit_arguments(_, _)
\* the loop of visit_call over the arguments
visit_arguments(args, i) ==
    IF i > Len(args) THEN <<>> ELSE visit_expr(args[i]) \o visit_arguments(args, i + 1)

\* the calls and stores that CodeGenerator::visit_expr emits for an
\* expression, in the order it emits them
visit_expr(e) ==
    CASE e.kind = "Assign" -> Append(visit_expr(e.value), <<"store", e.name.lexeme>>)
      [] e.kind = "Binary" -> visit_expr(e.left) \o visit_expr(e.right)
      [] e.kind = "Unary" -> visit_expr(e.right)
      [] e.kind = "Call" ->
            Append(visit_arguments(e.arguments, 1), <<"call", e.callee.name.lexeme>>)
      [] e.kind = "Grouping" -> visit_expr(e.expression)
      [] OTHER -> <<>>

\* the calls, stores and prints that visit_stmt emits for an expression
\* statement, a print statement or a declaration
visit_stmt(s) ==
    CASE s.kind = "ExprStmt" -> visit_expr(s.expression)
      [] s.kind = "PrintStmt" -> Append(visit_expr(s.expression), <<"print">>)
      [] s.kind = "VarStmt" -> IF s.has_init THEN visit_expr(s.initializer) ELSE <<>>
      [] OTHER -> <<>>

RECURSIVE visit_stmts(_, _)
visit_stmts(stmts, i) ==
    IF i > Len(stmts) THEN <<>> ELSE visit_stmt(stmts[i]) \o visit_stmts(stmts, i + 1)

\* a program of expression statements, prints and declarations without a
\* short-circuit operator: it executes every call, assignment and print it
\* contains, once, in source order
StraightLine(stmts) ==
    \A i \in DOMAIN stmts :
        \/ stmts[i].kind \in {"ExprStmt", "PrintStmt"} /\ Unconditional(stmts[i].expression)
        \/ /\ stmts[i].kind = "VarStmt"
           /\ stmts[i].has_init => Unconditional(stmts[i].initializer)

\* C11: the optimizer's output performs the same side-effecting operations
\* (calls, assignments, prints) as its input, the same number of times in
\* the same order; checked on straight-line programs, where the operations
\* executed are the operations the program contains.
C11_OptimizePreservesEffects ==
    (optimized # <<>> /\ StraightLine(ast)) =>
        visit_stmts(optimized[1], 1) = visit_stmts(ast, 1)

RECURSIVE NamesIn(_)
\* every name an expression mentions
NamesIn(e) ==
    CASE e.kind = "Variable" -> {e.name.lexeme}
      [] e.kind = "Assign" -> {e.name.lexeme} \cup NamesIn(e.value)
      [] e.kind \in {"Binary", "Logical"} -> NamesIn(e.left) \cup NamesIn(e.right)
      [] e.kind = "Unary" -> NamesIn(e.right)
      [] e.kind = "Grouping" -> NamesIn(e.expression)
      [] e.kind = "Call" ->
            NamesIn(e.callee) \cup UNION {NamesIn(e.arguments[i]) : i \in DOMAIN e.arguments}
      [] OTHER -> {}

\* the expressions a statement holds itself (not those of the statements
\* inside it)
ExprsOf(s) ==
    CASE s.kind = "VarStmt" -> IF s.has_init THEN {s.initializer} ELSE {}
      [] s.kind \in {"ExprStmt", "PrintStmt"} -> {s.expression}
      [] s.kind \in {"IfStmt", "WhileStmt"} -> {s.condition}
      [] s.kind = "SwitchStmt" ->
            {s.condition} \cup {s.cases[i].value : i \in DOMAIN s.cases}
      [] s.kind = "ReturnStmt" -> IF s.has_value THEN {s.value} ELSE {}
      [] OTHER -> {}

\* the names used anywhere in the program, inside every nested construct
UsedAnywhere(stmts) ==
    UNION {NamesIn(e) : e \in UNION {ExprsOf(AllStmts(stmts)[i]) : i \in DOMAIN AllStmts(stmts)}}

\* the declarations of the program, at any depth
Declarations(stmts) ==
    {AllStmts(stmts)[i] :
        i \in {j \in DOMAIN AllStmts(stmts) : AllStmts(stmts)[j].kind = "VarStmt"}}

\* the declaration d of the input is not in the output (a declaration is
\* known by the token of its name, which no pass rewrites)
Dropped(d, output) == \A o \in Declarations(output) : o.name # d.name

DeadCodeEliminationOnly ==
    /\ config = OnlyFlags({"dead_code_elimination"})
    /\ optimized # <<>>

\* C12: dead-code elimination drops a variable declaration only if its
\* name is used nowhere in the program, uses inside every nested construct
\* (unsafe blocks too) counted, and its initializer is side-effect free.
C12_DroppedDeclarationIsUnused ==
    DeadCodeEliminationOnly =>
        \A d \in Declarations(ast) :
            Dropped(d, optimized[1]) =>
                /\ d.name.lexeme \notin UsedAnywhere(ast)
                /\ d.has_init => ~has_side_effects(d.initializer)

\* the expression of a print or expression statement, the initializer of a
\* declaration
TopExpr(s) == IF s.kind = "VarStmt" THEN s.initializer ELSE s.expression

\* a program of one statement whose expression is e * 0 or 0 * e
OneProductByZero ==
    /\ Len(ast) = 1
    /\ \/ ast[1].kind \in {"ExprStmt", "PrintStmt"}
       \/ ast[1].kind = "VarStmt" /\ ast[1].has_init
    /\ TopExpr(ast[1]).kind = "Binary"
    /\ TopExpr(ast[1]).op = "STAR"
    /\ is_zero(TopExpr(ast[1]).left) \/ is_zero(TopExpr(ast[1]).right)

\* the operand of the product that is not the literal 0 the rewrite keeps
DroppedOperand(e) == IF is_zero(e.right) THEN e.left ELSE e.right

AlgebraicSimplificationOnly ==
    /\ config = OnlyFlags({"algebraic_simplification"})
    /\ optimized # <<>>

\* C13: the algebraic simplifier leaves x * 0 and 0 * x unchanged when the
\* operand that the rewrite to the literal 0 would drop has side effects.
C13_ZeroProductKeepsSideEffects ==
    (AlgebraicSimplificationOnly /\ OneProductByZero
         /\ has_side_effects(DroppedOperand(TopExpr(ast[1])))) =>
        optimized[1] = ast

\* C14: with optimize_level = 0 no pass is applied, whatever the other
\* flags of the configuration are: optimize returns a tree structurally
\* equal to its input.
C14_LevelZeroAppliesNoPass ==
    (config.optimize_level = 0 /\ optimized # <<>>) => optimized[1] = ast

\* one further sweep of the pass pipeline over the tree
OneMoreSweep(stmts) == run_passes(passes, config, 1, Rewritten(stmts, FALSE)).x

\* C15: optimize makes at most 10 sweeps of the pass pipeline, and when it
\* stops after fewer than 10 the tree it returns is a fixed point of the
\* pipeline: one further sweep leaves it structurally unchanged.
C15_StopsOnlyAtFixedPoint ==
    optimized # <<>> =>
        /\ Len(sweeps) <= max_iterations
        /\ Len(sweeps) < max_iterations =>
               OneMoreSweep(Last(optimized)) = Last(optimized)

\* C16: in every sweep of the pass pipeline in which no pass reports
\* modified = true, the tree at the end of the sweep is structurally
\* identical to the tree the sweep started from.
C16_UnmodifiedSweepKeepsTree ==
    \A i \in DOMAIN sweeps :
        ~sweeps[i].any_modified => sweeps[i].output = sweeps[i].input

\* C17: with constant folding enabled, in var x = 42; var y = 10;
\* var z = x + y; print z; the initializer of z is replaced by the literal
\* 52 and the print statement that uses z is kept.
C17_FoldsInitializerOverConstants ==
    (ast = FoldingExample /\ config.constant_folding /\ optimized # <<>>) =>
        /\ \E d \in Declarations(optimized[1]) :
               d.name.lexeme = "z" /\ d.has_init /\ d.initializer = NumLit(52)
        /\ \E i \in DOMAIN optimized[1] :
               /\ optimized[1][i].kind = "PrintStmt"
               /\ "z" \in NamesIn(optimized[1][i].expression)

RECURSIVE WellFormed(_)
\* no branch, body or list slot of the statement holds a null StmtPtr
WellFormed(stmt) ==
    CASE stmt.kind = "null" -> FALSE
      [] stmt.kind = "IfStmt" ->
             /\ WellFormed(stmt.then_branch)
             /\ stmt.has_else => WellFormed(stmt.else_branch)
      [] stmt.kind = "WhileStmt" -> WellFormed(stmt.body)
      [] stmt.kind \in {"Block", "UnsafeBlock"} ->
             \A i \in DOMAIN stmt.statements : WellFormed(stmt.statements[i])
      [] stmt.kind = "FunctionStmt" ->
             \A i \in DOMAIN stmt.body : WellFormed(stmt.body[i])
      [] stmt.kind = "SwitchStmt" ->
             /\ \A c \in DOMAIN stmt.cases :
                    \A i \in DOMAIN stmt.cases[c].statements :
                        WellFormed(stmt.cases[c].statements[i])
             /\ stmt.has_default =>
                    \A i \in DOMAIN stmt.default_case : WellFormed(stmt.default_case[i])
      [] OTHER -> TRUE

\* C30: every tree optimize returns is well formed: every if has a
\* then-branch, every while has a body, and no branch or body slot holds a
\* null statement, also when folding deleted the statement that was in the
\* slot (a while or an else-less if with a false literal condition).
C30_OptimizedTreeIsWellFormed ==
    \A n \in DOMAIN optimized :
        \A i \in DOMAIN optimized[n] : WellFormed(optimized[n][i])

-----------------------------------------------------------------------------
(* Properties of the lexer and the parser.  scan_result[1] is the lexer    *)
(* after scan_tokens, parse_result[1] the outcome of parse.                *)

\* parse was called and ended
ParseEnded == parse_result # <<>>

\* C18: Parser::parse has exactly two outcomes: it returns the statement
\* list, or it raises the single bundled diagnostic that contains every
\* recorded error; no other failure escapes, whatever the line and column
\* of the offending token.
C18_ParseReturnsOrBundles ==
    ParseEnded =>
        \/ parse_result[1].outcome = "returned"
        \/ /\ parse_result[1].outcome = "runtime_error"
           /\ parse_result[1].bundled = parse_result[1].errors

RECURSIVE LineStart(_, _)
\* the offset of the first character of the line that holds offset pos
LineStart(text, pos) ==
    IF pos = 0 \/ text[pos] = "\n" THEN pos ELSE LineStart(text, pos - 1)

\* the column, counted from 1, of the character at offset pos
ColumnOf(text, pos) == pos - LineStart(text, pos) + 1

\* scan_tokens was called and returned its tokens
TokensReturned == scan_result # <<>> /\ ~scan_result[1].thrown

\* C19: every token the lexer emits has line >= 1 and column >= 1, and its
\* column is the position of its first character in its line counted from
\* 1, on the first line as on every later one, however the newline before
\* it was consumed.
C19_ColumnsCountFromOne ==
    TokensReturned =>
        /\ \A i \in DOMAIN scan_result[1].tokens :
               scan_result[1].tokens[i].line >= 1 /\ scan_result[1].tokens[i].column >= 1
        /\ \A i \in DOMAIN scan_result[1].starts :
               scan_result[1].tokens[i].column = ColumnOf(source_code, scan_result[1].starts[i])

RECURSIVE OpenBraces(_, _)
\* the braces open before token i, innermost last: TRUE for the brace of an
\* unsafe block, FALSE for any other
OpenBraces(toks, i) ==
    LET before == OpenBraces(toks, i - 1)
    IN  IF i <= 1 THEN <<>>
        ELSE IF toks[i - 1].type = "LBRACE"
        THEN Append(before, i > 2 /\ toks[i - 2].type = "UNSAFE")
        ELSE IF toks[i - 1].type = "RBRACE" /\ before # <<>> THEN Front(before)
        ELSE before

\* token i is lexically inside an unsafe block
InsideUnsafe(toks, i) == \E k \in DOMAIN OpenBraces(toks, i) : OpenBraces(toks, i)[k]

\* C20: every llvm_inline statement that is not lexically inside an unsafe
\* block is rejected with the parse error for the missing unsafe context,
\* whatever was parsed earlier in the file.
C20_InlineOutsideUnsafeRejected ==
    ParseEnded =>
        \A i \in DOMAIN parse_result[1].inline_log :
            ~InsideUnsafe(scan_result[1].tokens, parse_result[1].inline_log[i].keyword) =>
                parse_result[1].inline_log[i].rejected

\* the declarations of a source made of print statements that have a
\* syntax error: each starts at a print keyword, and is well formed when a
\* name and a semicolon follow
FaultyDeclarations(toks) ==
    {i \in DOMAIN toks :
        /\ toks[i].type = "PRINT"
        /\ ~(/\ i + 2 <= Len(toks)
             /\ toks[i + 1].type = "IDENTIFIER"
             /\ toks[i + 2].type = "SEMICOLON")}

\* parse stopped at the END_OF_FILE token
ReachedTheEnd == parse_result[1].current = Len(scan_result[1].tokens) - 1

\* C21: after a parse error is recorded the parser skips to just after the
\* next semicolon or to the next statement-leading keyword and resumes, so
\* that parse always reaches the end of the token sequence and a file with
\* syntax errors in several separate declarations reports all of them.
C21_RecoveryReportsEveryDeclaration ==
    ParseEnded =>
        /\ ReachedTheEnd
        /\ Len(parse_result[1].errors) >= Cardinality(FaultyDeclarations(scan_result[1].tokens))

\* parse returned its statement list
ParseReturned == ParseEnded /\ parse_result[1].outcome = "returned"

RECURSIVE Enclosed(_, _, _)
\* every break among stmts and below lies in the body of a while or in a
\* switch, every return in the body of a function; in_loop and in_function
\* tell what encloses stmts
Enclosed(stmts, in_loop, in_function) ==
    \A i \in DOMAIN stmts :
        CASE stmts[i].kind = "BreakStmt" -> in_loop
          [] stmts[i].kind = "ReturnStmt" -> in_function
          [] stmts[i].kind = "WhileStmt" -> Enclosed(<<stmts[i].body>>, TRUE, in_function)
          [] stmts[i].kind = "SwitchStmt" ->
                \A c \in DOMAIN stmts[i].cases :
                    Enclosed(stmts[i].cases[c].statements, TRUE, in_function)
          [] stmts[i].kind = "FunctionStmt" -> Enclosed(stmts[i].body, in_loop, TRUE)
          [] stmts[i].kind = "Block" -> Enclosed(stmts[i].statements, in_loop, in_function)
          [] OTHER -> TRUE

\* C22: in every AST that parse returns, every break statement lies inside
\* the body of a while, a lowered for or a switch, and every return
\* statement lies inside a function body.
C22_BreakAndReturnEnclosed ==
    ParseReturned => Enclosed(parse_result[1].statements, FALSE, FALSE)

\* parse returned an AST that holds a break and a return
C22_Witness ==
    /\ ParseReturned
    /\ HasKind(parse_result[1].statements, "BreakStmt")
    /\ HasKind(parse_result[1].statements, "ReturnStmt")

-----------------------------------------------------------------------------
(* Properties of the compilation driver *)

PhaseRank(name) ==
    CASE name = "lex" -> 1
      [] name = "parse" -> 2
      [] name = "analyze" -> 3
      [] name = "optimize" -> 4
      [] name = "generate" -> 5

====
